---- MODULE Spec2Model ----
(***************************************************************************)
(* PriceHub (server.js): TTL cache, FX conversion, the Binance / CoinCap / *)
(* Paprika source adapters, the fallback resolvers and the batch routes.   *)
(*                                                                         *)
(* A request handler runs synchronously between two awaits on real I/O, so *)
(* one action of the model is one event of the Node event loop: a request  *)
(* arrives, an outstanding fetch completes, or a sleep timer fires.  The   *)
(* synchronous code run by the event is the composition of the micro steps *)
(* below (operator Run).                                                   *)
(***************************************************************************)
EXTENDS Integers, Sequences, FiniteSets, TLC

VARIABLES cache, now, req, got, lastSet, raw, ind

vars == <<cache, now, req, got, lastSet, raw, ind>>

(***************************** bounds **************************************)
MaxIds      == 2      \* ids in one batch request
MaxClock    == 4      \* SpecCache: last clock value
MaxTTL      == 2      \* SpecCache: largest ttl passed to setCache
FixScale    == 10000  \* MACD: the EMAs are held in units of 1/FixScale
RunLen      == 10     \* MACD: positions of the EMA loop evaluated per run
LongLen     == 100    \* raw endpoint: the longest series posted
MaxSeries   == 4      \* SpecInd: longest series given to an indicator
MaxPrice    == 3      \* SpecInd: prices are 1..MaxPrice
MaxWindow   == 3      \* SpecInd: largest period / window

(************************* program constants *******************************)
\* The clock counts units of Scale milliseconds, the shortest duration of the
\* program (sleep(50)); every other duration is a multiple of it.
Scale    == 50
FxTTL    == (5 * 60 * 1000) \div Scale
PairTTL  == (24 * 3600 * 1000) \div Scale
PriceTTL == (60 * 1000) \div Scale
CmpTTL   == (5 * 60 * 1000) \div Scale
SleepMs  == 50 \div Scale
DayMs    == (24 * 3600 * 1000) \div Scale
DefaultCompareDays == 30
AnalyzeDays == 60
MinPoints   == 40

(***************************** JS values ***********************************)
\* Every JS value of the model is a record with a type tag t.
JNull      == [t |-> "null"]
JUndef     == [t |-> "undefined"]
JNaN       == [t |-> "nan"]
JInf       == [t |-> "inf"]
JNegInf    == [t |-> "-inf"]
JNum(n)    == [t |-> "num", n |-> n]
JStr(s)    == [t |-> "str", s |-> s]
JBool(b)   == [t |-> "bool", b |-> b]

\* JS truthiness: if (x), !x, x || y
Truthy(v) ==
  CASE v.t = "null"      -> FALSE
    [] v.t = "undefined" -> FALSE
    [] v.t = "nan"       -> FALSE
    [] v.t = "num"       -> v.n # 0
    [] v.t = "str"       -> v.s # ""
    [] v.t = "bool"      -> v.b
    [] OTHER             -> TRUE

\* Number.isFinite(v): true only for a value of type number that is finite
NumberIsFinite(v) == v.t = "num"

\* The decimal texts the model's upstream bodies carry, with their values.
DecimalText == ("-5" :> -5) @@ ("0" :> 0) @@ ("2" :> 2) @@ ("7" :> 7) @@ ("8" :> 8)

\* parseFloat(x): undefined and non-numeric text give NaN, "Infinity" gives
\* Infinity, a decimal text gives its number.
parseFloat(v) ==
  CASE v.t = "num" -> v
    [] v.t = "inf" -> v
    [] v.t = "str" /\ v.s \in DOMAIN DecimalText -> JNum(DecimalText[v.s])
    [] v.t = "str" /\ v.s = "Infinity" -> JInf
    [] OTHER -> JNaN

\* ToNumber(v) as applied by the * operator
ToNumber(v) ==
  CASE v.t = "num" -> v
    [] v.t \in {"inf", "-inf"} -> v
    [] v.t = "null" -> JNum(0)
    [] v.t = "bool" -> JNum(IF v.b THEN 1 ELSE 0)
    [] v.t = "str" /\ v.s = "" -> JNum(0)
    [] v.t = "str" /\ v.s \in DOMAIN DecimalText -> JNum(DecimalText[v.s])
    [] v.t = "str" /\ v.s = "Infinity" -> JInf
    [] OTHER -> JNaN

\* a * b on JS values
Mul(a, b) ==
  LET x == ToNumber(a)
      y == ToNumber(b)
      sgn(z) == CASE z.t = "inf" -> 1
                  [] z.t = "-inf" -> -1
                  [] OTHER -> IF z.n > 0 THEN 1 ELSE IF z.n < 0 THEN -1 ELSE 0
  IN  CASE x.t = "nan" \/ y.t = "nan" -> JNaN
        [] x.t # "num" \/ y.t # "num" ->
             IF sgn(x) * sgn(y) = 0 THEN JNaN
             ELSE IF sgn(x) * sgn(y) > 0 THEN JInf ELSE JNegInf
        [] OTHER -> JNum(x.n * y.n)

\* String.prototype.toLowerCase / toUpperCase on the currency codes used
toLowerCase(s) ==
  CASE s \in {"usd", "Usd", "USD"} -> "usd"
    [] s \in {"inr", "INR"} -> "inr"
    [] OTHER -> s

toUpperCase(s) ==
  CASE s \in {"usd", "Usd", "USD"} -> "USD"
    [] s \in {"inr", "INR"} -> "INR"
    [] OTHER -> s

(******************************* tiny cache ********************************)
\* Cache keys: `${ns}:${ids.join(",")}:${days}:${vs}` with the unused parts empty
Key(ns, ids, days, vs) == [ns |-> ns, ids |-> ids, days |-> days, vs |-> vs]
PairKey(id)      == Key("pair", <<id>>, 0, "")
FxKey(vs)        == Key("fx", <<>>, 0, vs)
PriceKey(ids, vs) == Key("price", ids, 0, vs)
CmpKey(ids, days, vs) == Key("cmp", ids, days, vs)

\* a setCache that leaves an entry that is already there as it is
setCache_keepfirst(c, t, k, v, ttlMs) ==
  [x \in DOMAIN c \cup {k} |->
     IF x \in DOMAIN c THEN c[x] ELSE [v |-> v, ts |-> t, ttl |-> ttlMs]]

\* a setCache that sweeps the expired entries out of the store
setCache_sweep(c, t, k, v, ttlMs) ==
  [x \in {y \in DOMAIN c : t - c[y].ts <= c[y].ttl} \cup {k} |->
     IF x = k THEN [v |-> v, ts |-> t, ttl |-> ttlMs] ELSE c[x]]

\* setCache(k, v, ttlMs) at time t: cache[k] = { v, ts: Date.now(), ttl }
setCache(c, t, k, v, ttlMs) ==
  [x \in DOMAIN c \cup {k} |-> IF x = k THEN [v |-> v, ts |-> t, ttl |-> ttlMs] ELSE c[x]]

\* getCache with the expiry test written as >= instead of >
getCache_strict(c, t, k) ==
  IF k \notin DOMAIN c THEN JNull
  ELSE IF t - c[k].ts >= c[k].ttl THEN JNull
  ELSE c[k].v

\* getCache that never expires an entry
getCache_noexpiry(c, t, k) ==
  IF k \notin DOMAIN c THEN JNull ELSE c[k].v

\* getCache(k) at time t
getCache(c, t, k) ==
  IF k \notin DOMAIN c THEN JNull
  ELSE IF t - c[k].ts > c[k].ttl THEN JNull
  ELSE c[k].v

EmptyCache == [x \in {} |-> JNull]

(**************************** coin id -> symbol ****************************)
COINS ==
  ("bitcoin"  :> [symbol |-> "BTC",  binancePair |-> "BTCUSDT"]) @@
  ("ethereum" :> [symbol |-> "ETH",  binancePair |-> "ETHUSDT"]) @@
  ("tether"   :> [symbol |-> "USDT", binancePair |-> "USDTUSD"]) @@
  ("bnb"      :> [symbol |-> "BNB",  binancePair |-> "BNBUSDT"]) @@
  ("solana"   :> [symbol |-> "SOL",  binancePair |-> "SOLUSDT"]) @@
  ("xrp"      :> [symbol |-> "XRP",  binancePair |-> "XRPUSDT"]) @@
  ("cardano"  :> [symbol |-> "ADA",  binancePair |-> "ADAUSDT"]) @@
  ("dogecoin" :> [symbol |-> "DOGE", binancePair |-> "DOGEUSDT"]) @@
  ("tron" :> [symbol |-> "TRX", binancePair |-> "TRXUSDT"]) @@
  ("polkadot" :> [symbol |-> "DOT", binancePair |-> "DOTUSDT"]) @@
  ("polygon" :> [symbol |-> "MATIC", binancePair |-> "MATICUSDT"]) @@
  ("litecoin" :> [symbol |-> "LTC", binancePair |-> "LTCUSDT"]) @@
  ("chainlink" :> [symbol |-> "LINK", binancePair |-> "LINKUSDT"]) @@
  ("avalanche" :> [symbol |-> "AVAX", binancePair |-> "AVAXUSDT"]) @@
  ("stellar" :> [symbol |-> "XLM", binancePair |-> "XLMUSDT"]) @@
  ("vechain" :> [symbol |-> "VET", binancePair |-> "VETUSDT"]) @@
  ("cosmos" :> [symbol |-> "ATOM", binancePair |-> "ATOMUSDT"]) @@
  ("filecoin" :> [symbol |-> "FIL", binancePair |-> "FILUSDT"]) @@
  ("aptos" :> [symbol |-> "APT", binancePair |-> "APTUSDT"]) @@
  ("arbitrum" :> [symbol |-> "ARB", binancePair |-> "ARBUSDT"]) @@
  ("optimism" :> [symbol |-> "OP", binancePair |-> "OPUSDT"]) @@
  ("pepe" :> [symbol |-> "PEPE", binancePair |-> "PEPEUSDT"]) @@
  ("shiba-inu" :> [symbol |-> "SHIB", binancePair |-> "SHIBUSDT"]) @@
  ("render-token" :> [symbol |-> "RNDR", binancePair |-> "RNDRUSDT"])

\* m?.binancePair || (m?.symbol ? `${m.symbol}USDT` : null)
BinanceGuess(id) ==
  IF id \in DOMAIN COINS THEN JStr(COINS[id].binancePair) ELSE JNull

(*************************** upstream responses ****************************)
\* What an awaited fetch can produce: the fetch rejects, the body is not
\* JSON, or a JSON body of which val is the field the caller reads.
NetErr        == [kind |-> "neterr"]
BadJson(ok)   == [kind |-> "badjson", ok |-> ok]
Json(ok, val) == [kind |-> "json", ok |-> ok, val |-> val]

OldAge == (AnalyzeDays + 1) * DayMs
Pt(age, close) == [age |-> age, close |-> close]
JArr(a) == [t |-> "arr", a |-> a]

PriceFields == {JUndef, JStr("abc"), JStr("Infinity"), JStr("-5"), JStr("0"), JStr("7")}
IdFields    == {JUndef, JStr("resolved-id")}
FxFields    == {JUndef, JNum(0), JNum(2), JStr("n/a"), JInf}
AiFields    == {JUndef, JStr(""), JStr("Momentum is positive.")}
SeriesFields ==
  { JUndef, JArr(<<>>), JArr(<<Pt(0, JStr("7"))>>), JArr(<<Pt(OldAge, JStr("7"))>>),
    JArr(<<Pt(0, JStr("abc"))>>), JArr(<<Pt(0, JStr("0")), Pt(0, JStr("7"))>>),
    JArr(<<Pt(OldAge, JStr("7")), Pt(0, JStr("8"))>>) }

RespOver(fields) ==
  {NetErr, BadJson(TRUE)} \cup {Json(TRUE, f) : f \in fields}
    \cup {Json(FALSE, f) : f \in fields}

Throw(e)  == [ok |-> FALSE, e |-> e]
Return(v) == [ok |-> TRUE, v |-> v]

(******************************** Binance **********************************)
\* binancePriceUSDT(pair), given what its fetch produced
binancePriceUSDT(resp) ==
  IF resp.kind = "neterr" THEN Throw("fetch failed")
  ELSE IF ~resp.ok THEN Throw("binance_ticker_bad")
  ELSE IF resp.kind = "badjson" THEN Throw("invalid json")
  ELSE LET p == parseFloat(resp.val)
       IN  IF ~NumberIsFinite(p) THEN Throw("binance_ticker_nan") ELSE Return(p)

\* arr.filter(pred) for a sequence
RECURSIVE SelectPts(_, _, _)
SelectPts(a, t, days) ==
  IF a = <<>> THEN <<>>
  ELSE LET rest == SelectPts(Tail(a), t, days)
       IN  IF Head(a).ts >= t - days * DayMs THEN <<Head(a)>> \o rest ELSE rest

RECURSIVE SelectFinite(_)
SelectFinite(a) ==
  IF a = <<>> THEN <<>>
  ELSE IF NumberIsFinite(Head(a).price) THEN <<Head(a)>> \o SelectFinite(Tail(a))
  ELSE SelectFinite(Tail(a))

\* binanceKlines(pair, interval): j.map(c => [c[0], parseFloat(c[4])])
binanceKlines(resp, t) ==
  IF resp.kind = "neterr" THEN Throw("fetch failed")
  ELSE IF ~resp.ok THEN Throw("binance_klines_bad")
  ELSE IF resp.kind = "badjson" THEN Throw("invalid json")
  ELSE IF resp.val.t # "arr" THEN Throw("binance_klines_not_array")
  ELSE Return([i \in 1..Len(resp.val.a) |->
                 [ts |-> t - resp.val.a[i].age, price |-> parseFloat(resp.val.a[i].close)]])

(*************************** CoinCap (fallback) ****************************)
\* coincapResolve, first fetch: "found" the id, go on to "search", or throw
coincapResolve_direct(resp) ==
  IF resp.kind = "neterr" THEN [next |-> "throw", e |-> "fetch failed"]
  ELSE IF ~resp.ok THEN [next |-> "search"]
  ELSE IF resp.kind = "badjson" THEN [next |-> "throw", e |-> "invalid json"]
  ELSE IF Truthy(resp.val) THEN [next |-> "found", id |-> resp.val]
  ELSE [next |-> "search"]

\* coincapResolve, second fetch; a null result makes the caller throw
coincapResolve_search(resp) ==
  IF resp.kind = "neterr" THEN [next |-> "throw", e |-> "fetch failed"]
  ELSE IF ~resp.ok THEN [next |-> "throw", e |-> "coincap_resolve_failed"]
  ELSE IF resp.kind = "badjson" THEN [next |-> "throw", e |-> "invalid json"]
  ELSE IF Truthy(resp.val) THEN [next |-> "found", id |-> resp.val]
  ELSE [next |-> "throw", e |-> "coincap_resolve_failed"]

\* coincapPriceUSD after the id is resolved (r.ok is not looked at)
coincapPriceUSD(resp) ==
  IF resp.kind = "neterr" THEN Throw("fetch failed")
  ELSE IF resp.kind = "badjson" THEN Throw("invalid json")
  ELSE LET p == parseFloat(resp.val)
       IN  IF ~NumberIsFinite(p) THEN Throw("coincap_price_nan") ELSE Return(p)

\* coincapHistoryUSD after the id is resolved
coincapHistoryUSD(resp, t, days) ==
  IF resp.kind = "neterr" THEN Throw("fetch failed")
  ELSE IF resp.kind = "badjson" THEN Throw("invalid json")
  ELSE LET arr == IF resp.val.t = "arr" THEN resp.val.a ELSE <<>>
           abs == [i \in 1..Len(arr) |-> [ts |-> t - arr[i].age, close |-> arr[i].close]]
           cut == SelectPts(abs, t, days)
           out == SelectFinite([i \in 1..Len(cut) |->
                                  [ts |-> cut[i].ts, price |-> parseFloat(cut[i].close)]])
       IN  IF Len(out) = 0 THEN Throw("coincap_hist_empty") ELSE Return(out)

(************************* CoinPaprika (fallback) **************************)
\* paprikaResolve: cur || null (r.ok is not looked at)
paprikaResolve(resp) ==
  IF resp.kind = "neterr" THEN [next |-> "throw", e |-> "fetch failed"]
  ELSE IF resp.kind = "badjson" THEN [next |-> "throw", e |-> "invalid json"]
  ELSE IF Truthy(resp.val) THEN [next |-> "found", id |-> resp.val]
  ELSE [next |-> "throw", e |-> "paprika_resolve_failed"]

\* paprikaPriceUSD after the id is resolved
paprikaPriceUSD(resp) ==
  IF resp.kind = "neterr" THEN Throw("fetch failed")
  ELSE IF resp.kind = "badjson" THEN Throw("invalid json")
  ELSE LET p == parseFloat(resp.val)
       IN  IF ~NumberIsFinite(p) THEN Throw("paprika_price_nan") ELSE Return(p)

(************************ numbers of the analysis **************************)
\* The indicator code computes on IEEE doubles.  Here a finite number is an
\* exact fraction n/d whose numerator and denominator are polynomials in the
\* guard constant 1e-9 (EPS), written as coefficient sequences: <<a, b>> is
\* a + b*EPS.  EPS is kept symbolic and is smaller than every positive
\* number the program forms from prices; an order test looks at the lowest
\* non-zero coefficient.  NaN, Infinity and -Infinity are the values JNaN,
\* JInf and JNegInf.  Rounding and -0 are not represented.
\* const x = v; F(x): an intermediate value under a name
With(v, F(_)) == F(v)

RECURSIVE GCD(_, _)
GCD(a, b) ==
  LET x == IF a < 0 THEN -a ELSE a
      y == IF b < 0 THEN -b ELSE b
  IN  IF y = 0 THEN x ELSE GCD(y, x % y)

Coef(p, k) == IF k \in 1..Len(p) THEN p[k] ELSE 0

RECURSIVE PSign(_)
PSign(p) ==
  IF p = <<>> THEN 0
  ELSE IF Head(p) > 0 THEN 1
  ELSE IF Head(p) < 0 THEN -1
  ELSE PSign(Tail(p))

RECURSIVE Content(_)
Content(p) ==
  IF p = <<>> THEN 0
  ELSE IF Len(p) = 1 THEN (IF p[1] < 0 THEN -p[1] ELSE p[1])
  ELSE GCD(Head(p), Content(Tail(p)))

RECURSIVE Trim(_)
Trim(p) ==
  IF Len(p) > 1 /\ p[Len(p)] = 0 THEN Trim(SubSeq(p, 1, Len(p) - 1)) ELSE p

PScale(c, p) == [k \in 1..Len(p) |-> c * p[k]]
PQuot(p, c)  == [k \in 1..Len(p) |-> p[k] \div c]
PAdd(p, q) ==
  [k \in 1..(IF Len(p) > Len(q) THEN Len(p) ELSE Len(q)) |-> Coef(p, k) + Coef(q, k)]

RECURSIVE Conv(_, _, _, _)
Conv(p, q, k, i) ==
  IF i > Len(p) THEN 0 ELSE p[i] * Coef(q, k + 1 - i) + Conv(p, q, k, i + 1)
PMul(p, q) ==
  IF Len(p) = 1 THEN PScale(p[1], q)
  ELSE IF Len(q) = 1 THEN PScale(q[1], p)
  ELSE [k \in 1..(Len(p) + Len(q) - 1) |-> Conv(p, q, k, 1)]

\* the finite number n/d in lowest terms, with a positive denominator
RECURSIVE Reduce(_, _)
Reduce(n, d) ==
  IF PSign(n) = 0 THEN [t |-> "q", n |-> <<0>>, d |-> <<1>>]
  ELSE IF Head(n) = 0 /\ Head(d) = 0 THEN Reduce(Tail(n), Tail(d))
  ELSE With(GCD(Content(n), Content(d)), LAMBDA g :
         [t |-> "q", n |-> Trim(PScale(PSign(d), PQuot(n, g))),
                     d |-> Trim(PScale(PSign(d), PQuot(d, g)))])

Frac(a, b) == Reduce(<<a>>, <<b>>)
Num(a)     == Frac(a, 1)
\* the literal 1e-9 of Math.max(1e-9, x)
EPS        == [t |-> "q", n |-> <<0, 1>>, d |-> <<1>>]

IsNaN(x)    == x.t = "nan"
IsFin(x)    == x.t = "q"
\* -1, 0 or 1 for a number that is not NaN
Sign(x) ==
  CASE x.t = "inf"  -> 1
    [] x.t = "-inf" -> -1
    [] OTHER        -> PSign(x.n)
SignedInf(s) == IF s > 0 THEN JInf ELSE JNegInf

Neg(x) ==
  CASE x.t = "nan"  -> JNaN
    [] x.t = "inf"  -> JNegInf
    [] x.t = "-inf" -> JInf
    [] OTHER        -> [x EXCEPT !.n = PScale(-1, x.n)]

\* x + y
Plus(x, y) ==
  CASE IsNaN(x) \/ IsNaN(y) -> JNaN
    [] ~IsFin(x) /\ ~IsFin(y) -> IF x = y THEN x ELSE JNaN
    [] ~IsFin(x) -> x
    [] ~IsFin(y) -> y
    [] OTHER ->
         With(GCD(Content(x.d), Content(y.d)), LAMBDA g :
         With(PQuot(x.d, g), LAMBDA xd :
         With(PQuot(y.d, g), LAMBDA yd :
           Reduce(PAdd(PMul(x.n, yd), PMul(y.n, xd)), PMul(xd, y.d)))))

\* x - y
Minus(x, y) == Plus(x, Neg(y))

\* x * y
Times(x, y) ==
  CASE IsNaN(x) \/ IsNaN(y) -> JNaN
    [] ~IsFin(x) \/ ~IsFin(y) ->
         IF Sign(x) * Sign(y) = 0 THEN JNaN ELSE SignedInf(Sign(x) * Sign(y))
    [] Sign(x) = 0 \/ Sign(y) = 0 -> Num(0)
    [] OTHER ->
         With(GCD(Content(x.n), Content(y.d)), LAMBDA g1 :
         With(GCD(Content(y.n), Content(x.d)), LAMBDA g2 :
           Reduce(PMul(PQuot(x.n, g1), PQuot(y.n, g2)),
                  PMul(PQuot(x.d, g2), PQuot(y.d, g1)))))

\* x / y
Over(x, y) ==
  CASE IsNaN(x) \/ IsNaN(y) -> JNaN
    [] ~IsFin(x) /\ ~IsFin(y) -> JNaN
    [] ~IsFin(x) -> SignedInf(Sign(x) * (IF Sign(y) < 0 THEN -1 ELSE 1))
    [] ~IsFin(y) -> Num(0)
    [] Sign(y) = 0 -> IF Sign(x) = 0 THEN JNaN ELSE SignedInf(Sign(x))
    [] OTHER -> Times(x, Reduce(y.d, y.n))

\* x < y, x > y and x >= y on numbers: false as soon as one is NaN
Lt(x, y)  == ~IsNaN(x) /\ ~IsNaN(y) /\ x # y /\ Sign(Minus(x, y)) < 0
Gt(x, y)  == Lt(y, x)
Geq(x, y) == ~IsNaN(x) /\ ~IsNaN(y) /\ ~Lt(x, y)

MathMax(x, y) == IF IsNaN(x) \/ IsNaN(y) THEN JNaN ELSE IF Lt(x, y) THEN y ELSE x
MathMin(x, y) == IF IsNaN(x) \/ IsNaN(y) THEN JNaN ELSE IF Lt(y, x) THEN y ELSE x
MathAbs(x)    == IF IsNaN(x) THEN JNaN ELSE IF Sign(x) < 0 THEN Neg(x) ELSE x

\* if (x), x ? a : b, x || y on a number
NumTruthy(x) == ~IsNaN(x) /\ Sign(x) # 0

(****************************** math helpers *******************************)
\* arr.slice(-n)
SliceLast(arr, n) ==
  IF n = 0 \/ n >= Len(arr) THEN arr ELSE SubSeq(arr, Len(arr) - n + 1, Len(arr))
\* arr.slice(0, n)
SliceFirst(arr, n) == SubSeq(arr, 1, IF n < Len(arr) THEN n ELSE Len(arr))

\* a.reduce((s, x) => s + x, 0): the sum of a[lo..hi], added up by halves
\* (the order of the additions does not change an exact sum)
RECURSIVE SumOf(_, _, _)
SumOf(a, lo, hi) ==
  IF lo > hi THEN Num(0)
  ELSE IF lo = hi THEN Plus(Num(0), a[lo])
  ELSE LET mid == (lo + hi) \div 2
       IN  Plus(SumOf(a, lo, mid), SumOf(a, mid + 1, hi))

mean(a) == Over(SumOf(a, 1, Len(a)), Num(Len(a)))

\* SMA(arr, n)
SMA(arr, n) == IF Len(arr) >= n THEN mean(SliceLast(arr, n)) ELSE JNaN

\* the loop of RSI over the 1-based positions i..Len(arr): the sums g and l
RECURSIVE RSI_loop(_, _, _, _)
RSI_loop(arr, i, g, l) ==
  IF i > Len(arr) THEN [g |-> g, l |-> l]
  ELSE With(Minus(arr[i], arr[i - 1]), LAMBDA d :
         IF Geq(d, Num(0)) THEN RSI_loop(arr, i + 1, Plus(g, d), l)
         ELSE RSI_loop(arr, i + 1, g, Minus(l, d)))

\* RSI(arr, period)
RSI(arr, period) ==
  IF Len(arr) <= period THEN JNaN
  ELSE With(RSI_loop(arr, Len(arr) - period + 1, Num(0), Num(0)), LAMBDA s :
         LET RS == Over(s.g, MathMax(EPS, s.l))
         IN  Minus(Num(100), Over(Num(100), Plus(Num(1), RS))))

\* the regression of trendSlope against a time axis that runs backwards
trendSlope_reversed(arr, n) ==
  With(SliceLast(arr, n), LAMBDA a :
    LET m == Len(a)
    IN  IF m < 2 THEN Num(0)
        ELSE With([i \in 1..m |-> Over(Num(m - i), Num(m - 1))], LAMBDA xs :
             With(mean(xs), LAMBDA xm :
             With(mean(a), LAMBDA ym :
             With([i \in 1..m |-> Minus(xs[i], xm)], LAMBDA dx :
             With(SumOf([i \in 1..m |-> Times(dx[i], Minus(a[i], ym))], 1, m),
                  LAMBDA num :
             With(SumOf([i \in 1..m |-> Times(dx[i], dx[i])], 1, m), LAMBDA den :
               IF NumTruthy(den) THEN Over(Over(num, den), MathMax(EPS, ym))
               ELSE Num(0))))))))

\* trendSlope(arr, n)
trendSlope(arr, n) ==
  With(SliceLast(arr, n), LAMBDA a :
    LET m == Len(a)
    IN  IF m < 2 THEN Num(0)
        ELSE With([i \in 1..m |-> Over(Num(i - 1), Num(m - 1))], LAMBDA xs :
             With(mean(xs), LAMBDA xm :
             With(mean(a), LAMBDA ym :
             With([i \in 1..m |-> Minus(xs[i], xm)], LAMBDA dx :
             With(SumOf([i \in 1..m |-> Times(dx[i], Minus(a[i], ym))], 1, m),
                  LAMBDA num :
             With(SumOf([i \in 1..m |-> Times(dx[i], dx[i])], 1, m), LAMBDA den :
               IF NumTruthy(den) THEN Over(Over(num, den), MathMax(EPS, ym))
               ELSE Num(0))))))))

\* The EMAs of MACD mix every price with weights whose denominators grow
\* with the length of the series; they are held in fixed point, as whole
\* multiples of 1/FixScale, each step rounded down.
Fix(x) ==
  LET n == x.n[1]
      d == x.d[1]
  IN  (n \div d) * FixScale + ((n % d) * FixScale) \div d
UnFix(m) == Frac(m, FixScale)

\* ema = p * k + ema * (1 - k) with k = 2 / (n + 1), on fixed-point values
EmaStep(p, ema, n) == (2 * p + (n - 1) * ema) \div (n + 1)

\* for (i = ...; i < arr.length; i++) if (i >= n - 1) { ema = ...; S.push(ema) }
\* over the 1-based positions i..hi: the values pushed, in order
RECURSIVE EmaRun(_, _, _, _, _)
EmaRun(arr, n, i, hi, ema) ==
  IF i > hi THEN <<>>
  ELSE IF i >= n
  THEN With(EmaStep(Fix(arr[i]), ema, n), LAMBDA e :
         <<e>> \o EmaRun(arr, n, i + 1, hi, e))
  ELSE EmaRun(arr, n, i + 1, hi, ema)

\* the same loop from position i to the end, taken RunLen positions at a time
RECURSIVE EmaSeries(_, _, _, _)
EmaSeries(arr, n, i, ema) ==
  IF i > Len(arr) THEN <<>>
  ELSE With(IF i + RunLen - 1 < Len(arr) THEN i + RunLen - 1 ELSE Len(arr), LAMBDA hi :
       With(EmaRun(arr, n, i, hi, ema), LAMBDA run :
         run \o EmaSeries(arr, n, hi + 1, IF run = <<>> THEN ema ELSE run[Len(run)])))

AllFinite(arr) == \A i \in 1..Len(arr) : IsFin(arr[i])

\* MACD(arr, fast, slow, signal).  A NaN or infinite price reaches both EMAs,
\* whose difference is then NaN.
MACD(arr, fast, slow, signal) ==
  IF Len(arr) < slow + signal \/ ~AllFinite(arr)
  THEN [macd |-> JNaN, signal |-> JNaN, hist |-> JNaN]
  ELSE With(EmaSeries(arr, fast, 1, Fix(mean(SliceFirst(arr, fast)))), LAMBDA fastS :
       With(EmaSeries(arr, slow, 1, Fix(mean(SliceFirst(arr, slow)))), LAMBDA slowS :
       LET start == IF Len(fastS) > Len(slowS) THEN Len(fastS) - Len(slowS) ELSE 0
       IN  With([i \in 1..(Len(fastS) - start) |-> UnFix(fastS[start + i] - slowS[i])],
                LAMBDA macdSeries :
       With(Fix(mean(SliceFirst(macdSeries, signal))), LAMBDA sig0 :
       With(EmaSeries(macdSeries, signal, signal + 1, sig0), LAMBDA sigS :
       With(IF sigS = <<>> THEN sig0 ELSE sigS[Len(sigS)], LAMBDA sig :
       With(Fix(macdSeries[Len(macdSeries)]), LAMBDA macd :
         [macd |-> UnFix(macd), signal |-> UnFix(sig),
          hist |-> UnFix(macd - sig)])))))))

\* rets: the arguments of Math.log, prices[i] / prices[i-1]
rets(prices) == [i \in 1..(Len(prices) - 1) |-> Over(prices[i + 1], prices[i])]

\* stdev(rets.slice(-24*7)) of the logarithms of the ratios.  Math.log and
\* Math.sqrt have no exact value here: the result is NaN where the program's
\* is (no return at all, or a return that is not a finite number because a
\* ratio is not positive and finite), 0 where all returns are equal, and
\* otherwise open: some positive number.
volKind(ratios) ==
  IF ratios = <<>> THEN "nan"
  ELSE IF \E i \in 1..Len(ratios) : ~(IsFin(ratios[i]) /\ Sign(ratios[i]) > 0) THEN "nan"
  ELSE IF \A i \in 1..Len(ratios) : ratios[i] = ratios[1] THEN "zero"
  ELSE "open"

\* the value of the standard deviation, v standing for it where it is open
stdevLog(kind, v) ==
  CASE kind = "nan"  -> JNaN
    [] kind = "zero" -> Num(0)
    [] OTHER         -> v

(***************************** signal composer *****************************)
\* x || y on numbers
OrElse(x, y) == IF NumTruthy(x) THEN x ELSE y

\* a score in which a comparison with an undefined side casts no vote
score_abstain(sma20, sma50, macd, signal, rsi14, slope) ==
  With(Plus(Num(0), IF IsNaN(sma20) \/ IsNaN(sma50) THEN Num(0)
                    ELSE IF Gt(sma20, sma50) THEN Num(1) ELSE Num(-1)), LAMBDA s1 :
  With(Plus(s1, IF IsNaN(macd) \/ IsNaN(signal) THEN Num(0)
                ELSE IF Gt(macd, signal) THEN Num(1) ELSE Num(-1)), LAMBDA s2 :
  With(IF Gt(rsi14, Num(60)) THEN Plus(s2, Num(1))
       ELSE IF Lt(rsi14, Num(40)) THEN Minus(s2, Num(1))
       ELSE s2, LAMBDA s3 :
    Plus(s3, Times(slope, Num(50))))))

\* let score = 0; score += ...   (four terms)
score(sma20, sma50, macd, signal, rsi14, slope) ==
  With(Plus(Num(0), IF Gt(sma20, sma50) THEN Num(1) ELSE Num(-1)), LAMBDA s1 :
  With(Plus(s1, IF Gt(macd, signal) THEN Num(1) ELSE Num(-1)), LAMBDA s2 :
  With(IF Gt(rsi14, Num(60)) THEN Plus(s2, Num(1))
       ELSE IF Lt(rsi14, Num(40)) THEN Minus(s2, Num(1))
       ELSE s2, LAMBDA s3 :
    Plus(s3, Times(slope, Num(50))))))

\* Math.max(-3, Math.min(3, score)) / 3
norm(sc) == Over(MathMax(Num(-3), MathMin(Num(3), sc)), Num(3))

\* a classification that never says "bearish"
sigText_nobearish(nm) == IF Gt(nm, Frac(25, 100)) THEN "bullish" ELSE "neutral"

\* norm > 0.25 ? "bullish" : norm < -0.25 ? "bearish" : "neutral"
sigText(nm) ==
  IF Gt(nm, Frac(25, 100)) THEN "bullish"
  ELSE IF Lt(nm, Frac(-25, 100)) THEN "bearish"
  ELSE "neutral"

\* the confidence formula without its two clamps
confidence_unclamped(vol7, nm) ==
  Plus(Minus(Frac(5, 10), Times(OrElse(vol7, Num(0)), Num(2))),
       Times(MathAbs(nm), Frac(5, 10)))

\* Math.max(0.1, Math.min(0.95, 0.5 - (vol7||0)*2 + Math.abs(norm)*0.5))
confidence(vol7, nm) ==
  MathMax(Frac(1, 10), MathMin(Frac(95, 100),
    Plus(Minus(Frac(5, 10), Times(OrElse(vol7, Num(0)), Num(2))),
         Times(MathAbs(nm), Frac(5, 10)))))

\* Math.max(0.004, Math.min(0.05, (vol7||0.01)*1.2))
expMove(vol7) ==
  MathMax(Frac(4, 1000), MathMin(Frac(5, 100),
    Times(OrElse(vol7, Frac(1, 100)), Frac(12, 10))))

\* norm * 0.012
drift(nm) == Times(nm, Frac(12, 1000))

\* (confidence*100).toFixed(0): the nearest whole number, or "NaN"
toFixed0(x) ==
  IF ~IsFin(x) THEN JStr("NaN")
  ELSE LET n == 2 * x.n[1] + x.d[1]
           d == 2 * x.d[1]
       IN  JNum(n \div d)

\* The indicators of analyzeSymbol and of the raw endpoint: from
\* const sma20 = ... to the returns of vol7
indicatorsOf(prices) ==
  With(MACD(prices, 12, 26, 9), LAMBDA m :
    [sma20 |-> SMA(prices, 20), sma50 |-> SMA(prices, 50),
     rsi14 |-> RSI(prices, 14),
     macd |-> m.macd, macdSignal |-> m.signal, macdHist |-> m.hist,
     trendSlope |-> trendSlope(prices, 30),
     vol7 |-> volKind(SliceLast(rets(prices), 24 * 7))])

\* the rest of the stack: score, norm, signal, confidence, band, result object
composeResult(symbol, vs, last, id, vol7) ==
  With(score(id.sma20, id.sma50, id.macd, id.macdSignal, id.rsi14, id.trendSlope),
       LAMBDA sc :
  With(norm(sc), LAMBDA nm :
  With(confidence(vol7, nm), LAMBDA conf :
  With(drift(nm), LAMBDA dr :
  With(expMove(vol7), LAMBDA em :
  With(Minus(dr, em), LAMBDA lowPct :
  With(Plus(dr, em), LAMBDA highPct :
  With(sigText(nm), LAMBDA sig :
    [ok |-> TRUE, symbol |-> symbol, vs |-> vs, latest_price |-> last,
     indicators |-> [id EXCEPT !.vol7 = vol7],
     signal |-> sig, confidence |-> conf,
     prediction |-> [horizon_hours |-> 24,
                     band_abs |-> <<Times(last, Plus(Num(1), lowPct)),
                                    Times(last, Plus(Num(1), highPct))>>,
                     band_pct |-> <<lowPct, highPct>>],
     summary |-> [signal |-> sig,
                  confidence |-> toFixed0(Times(conf, Num(100)))]]))))))))

\* the whole stack on one series; v stands for the volatility where it is open
indicatorStack(symbol, vs, prices, v) ==
  With(indicatorsOf(prices), LAMBDA id :
    composeResult(symbol, vs, prices[Len(prices)], id, stdevLog(id.vol7, v)))

(***************************** request state *******************************)
Procs == {1, 2}
Ids   == {"bitcoin", "mooncoin"}
Kinds == {"price", "compare", "analyze"}
RawVs == {"", "USD", "usd", "inr"}

NoResp == [status |-> 0]
NoRes  == [ok |-> FALSE, e |-> "pending"]
NoFx   == [kind |-> "none"]

NoRaw  == [body |-> [prices |-> JUndef], resp |-> NoResp]
NoInd  == [f |-> "none"]

IdleReq ==
  [kind |-> "none", ids |-> <<>>, rawVs |-> "", vs |-> "", days |-> 0,
   pc |-> "idle", await |-> "", in |-> NetErr, i |-> 0,
   rate |-> JUndef, out |-> <<>>, pair |-> JNull, guess |-> JNull,
   calls |-> <<>>, res |-> NoRes, resp |-> NoResp,
   inflight |-> {}, wake |-> 0, reads |-> {}, writes |-> {},
   fxCalls |-> 0, upCalls |-> FALSE, fetches |-> <<>>,
   results |-> <<>>, fxResp |-> NoFx, openaiKey |-> "", vol |-> Num(0)]

\* the states in which a handler waits for an event
Blocked(r) == r.pc \in {"idle", "wait", "sleep", "done"}

Mode(r) == IF r.kind = "price" THEN "spot" ELSE "history"
CurId(r) == r.ids[r.i]
ReqKey(r) ==
  IF r.kind = "price" THEN PriceKey(r.ids, r.vs) ELSE CmpKey(r.ids, r.days, r.vs)

\* a catch that ends the handler without answering
Fail500_silent(r, msg) == [r EXCEPT !.pc = "done"]

\* res.status(500).json({ ok: false, error: e?.message || ... })
Fail500(r, msg) ==
  [r EXCEPT !.pc = "done", !.resp = [status |-> 500, ok |-> FALSE, error |-> msg]]

\* await fetch(...): the handler suspends with one more call in flight
Issue(r, label, provider, asset) ==
  [r EXCEPT !.pc = "wait", !.await = label,
            !.inflight = @ \cup {[asset |-> asset, provider |-> provider]},
            !.fetches = Append(@, label)]

IssueUp(r, label, provider) ==
  [Issue(r, label, provider, CurId(r)) EXCEPT !.upCalls = TRUE]

\* bookkeeping of the adapters a resolver call has entered, in order
AdapterStart(r, name) ==
  [r EXCEPT !.calls = Append(@, [adapter |-> name, status |-> "pending"])]
AdapterEnd(r, result) ==
  [r EXCEPT !.calls[Len(r.calls)] =
     [adapter |-> r.calls[Len(r.calls)].adapter,
      status |-> IF result.ok THEN "ok" ELSE "fail", res |-> result]]

(****************************** FX conversion ******************************)
\* fxUSDTo without the reference-currency shortcut
fxUSDTo_entry_noidentity(s, t) ==
  LET r == s.r
      key == FxKey(r.vs)
      hit == getCache(s.c, t, key)
  IN  IF Truthy(hit)
      THEN [s EXCEPT !.r.rate = hit, !.r.pc = "loop", !.r.reads = @ \cup {key}]
      ELSE [s EXCEPT !.r = [Issue(r, "fx", "fx", "") EXCEPT
                              !.reads = @ \cup {key}, !.fxCalls = @ + 1]]

\* fxUSDTo that does not look into the cache
fxUSDTo_entry_refetch(s, t) ==
  LET r == s.r
      key == FxKey(r.vs)
  IN  IF r.vs = "" \/ toLowerCase(r.vs) = "usd"
      THEN [s EXCEPT !.r.rate = JNum(1), !.r.pc = "loop"]
      ELSE [s EXCEPT !.r = [Issue(r, "fx", "fx", "") EXCEPT
                              !.reads = @ \cup {key}, !.fxCalls = @ + 1]]

\* fxUSDTo(vs) up to its fetch
fxUSDTo_entry(s, t) ==
  LET r == s.r
      key == FxKey(r.vs)
      hit == getCache(s.c, t, key)
  IN  IF r.vs = "" \/ toLowerCase(r.vs) = "usd"
      THEN [s EXCEPT !.r.rate = JNum(1), !.r.pc = "loop"]
      ELSE IF Truthy(hit)
      THEN [s EXCEPT !.r.rate = hit, !.r.pc = "loop", !.r.reads = @ \cup {key}]
      ELSE [s EXCEPT !.r = [Issue(r, "fx", "fx", "") EXCEPT
                              !.reads = @ \cup {key}, !.fxCalls = @ + 1]]

\* fxUSDTo that falls back to a rate of 1 when the FX source fails
fxUSDTo_got_default(s, t) ==
  LET r == s.r
      key == FxKey(r.vs)
  IN  IF r.in.kind # "json" \/ ~Truthy(r.in.val)
      THEN [s EXCEPT !.r.rate = JNum(1), !.r.pc = "loop"]
      ELSE [s EXCEPT !.c = setCache(s.c, t, key, r.in.val, FxTTL),
                     !.r.rate = r.in.val, !.r.pc = "loop",
                     !.r.writes = @ \cup {key}]

\* fxUSDTo(vs) from the completion of its fetch
fxUSDTo_got(s, t) ==
  LET r == s.r
      key == FxKey(r.vs)
  IN  IF r.in.kind = "neterr" THEN [s EXCEPT !.r = Fail500(r, "fetch failed")]
      ELSE IF r.in.kind = "badjson" THEN [s EXCEPT !.r = Fail500(r, "invalid json")]
      ELSE IF ~Truthy(r.in.val) THEN [s EXCEPT !.r = Fail500(r, "fx_failed")]
      ELSE [s EXCEPT !.c = setCache(s.c, t, key, r.in.val, FxTTL),
                     !.r.rate = r.in.val, !.r.pc = "loop",
                     !.r.writes = @ \cup {key}]

(******************** pair probing (Binance dynamic) ***********************)
\* a probeBinancePair that takes a stored false for a miss
probeBinancePair_entry_truthy(s, t) ==
  LET r == s.r
      key == PairKey(CurId(r))
      hit == getCache(s.c, t, key)
      guess == BinanceGuess(CurId(r))
      r1 == [r EXCEPT !.reads = @ \cup {key}]
  IN  IF Truthy(hit)
      THEN [s EXCEPT !.r = [r1 EXCEPT !.pair = hit, !.pc = "binance"]]
      ELSE IF ~Truthy(guess)
      THEN [s EXCEPT !.c = setCache(s.c, t, key, JBool(FALSE), PairTTL),
                     !.r = [r1 EXCEPT !.pair = JBool(FALSE), !.pc = "binance",
                                      !.writes = @ \cup {key}]]
      ELSE [s EXCEPT !.r = [IssueUp(r1, "probe", "binance") EXCEPT !.guess = guess]]

\* probeBinancePair(id) up to its fetch
probeBinancePair_entry(s, t) ==
  LET r == s.r
      key == PairKey(CurId(r))
      hit == getCache(s.c, t, key)
      guess == BinanceGuess(CurId(r))
      r1 == [r EXCEPT !.reads = @ \cup {key}]
  IN  IF hit.t # "null"
      THEN [s EXCEPT !.r = [r1 EXCEPT !.pair = hit, !.pc = "binance"]]
      ELSE IF ~Truthy(guess)
      THEN [s EXCEPT !.c = setCache(s.c, t, key, JBool(FALSE), PairTTL),
                     !.r = [r1 EXCEPT !.pair = JBool(FALSE), !.pc = "binance",
                                      !.writes = @ \cup {key}]]
      ELSE [s EXCEPT !.r = [IssueUp(r1, "probe", "binance") EXCEPT !.guess = guess]]

\* probeBinancePair(id) from the completion of its fetch
probeBinancePair_got(s, t) ==
  LET r == s.r
      key == PairKey(CurId(r))
      v == IF binancePriceUSDT(r.in).ok THEN r.guess ELSE JBool(FALSE)
  IN  [s EXCEPT !.c = setCache(s.c, t, key, v, PairTTL),
                !.r.pair = v, !.r.pc = "binance", !.r.writes = @ \cup {key}]

(******************************* aggregators *******************************)
ResolverEnter(r) ==
  [AdapterStart([r EXCEPT !.calls = <<>>, !.fetches = <<>>, !.res = NoRes,
                          !.pair = JNull, !.guess = JNull], "binance")
     EXCEPT !.pc = "probe"]
ResolverReturn(r, result) ==
  [AdapterEnd(r, result) EXCEPT !.res = result, !.pc = "resolved"]
\* a resolver that lets the error of its last adapter out
ResolverThrow_raw(r, result, e) ==
  [AdapterEnd(r, result) EXCEPT !.res = result, !.pc = "resolved"]

\* throw new Error("all_..._sources_failed") once the chain is exhausted
ResolverThrow(r, result, e) ==
  [AdapterEnd(r, result) EXCEPT !.res = Throw(e), !.pc = "resolved"]
EnterCoincap(r, result) ==
  [AdapterStart(AdapterEnd(r, result), "coincap") EXCEPT !.pc = "ccDirect"]
\* a chain that goes back to CoinCap when CoinCap has failed
EnterPaprika_retry(r, result) ==
  [AdapterStart(AdapterEnd(r, result), "coincap") EXCEPT !.pc = "ccDirect"]

EnterPaprika(r, result) ==
  [AdapterStart(AdapterEnd(r, result), "paprika") EXCEPT !.pc = "ppSearch"]

\* try { return await adapter } catch {} that goes on although the adapter succeeded
FirstSuccess_fallthrough(r, x, onFail) == onFail

\* try { return await adapter } catch {}: the first success is the result
FirstSuccess(r, x, onFail) == IF x.ok THEN ResolverReturn(r, x) ELSE onFail

\* getUSDPriceForId(id): Binance, then CoinCap, then Paprika
getUSDPriceForId(s, t) ==
  LET r == s.r
  IN  CASE r.pc = "resolve"  -> [s EXCEPT !.r = ResolverEnter(r)]
        [] r.pc = "probe"    -> probeBinancePair_entry(s, t)
        [] r.pc = "probeGot" -> probeBinancePair_got(s, t)
        [] r.pc = "binance"  ->
             IF Truthy(r.pair)
             THEN [s EXCEPT !.r = IssueUp(r, "binance", "binance")]
             ELSE [s EXCEPT !.r = EnterCoincap(r, Throw("no_pair"))]
        [] r.pc = "binanceGot" ->
             LET x == binancePriceUSDT(r.in)
             IN  [s EXCEPT !.r = FirstSuccess(r, x, EnterCoincap(r, x))]
        [] r.pc = "ccDirect" -> [s EXCEPT !.r = IssueUp(r, "ccDirect", "coincap")]
        [] r.pc = "ccDirectGot" ->
             LET x == coincapResolve_direct(r.in)
             IN  CASE x.next = "found"  -> [s EXCEPT !.r.pc = "ccData"]
                   [] x.next = "search" -> [s EXCEPT !.r.pc = "ccSearch"]
                   [] OTHER -> [s EXCEPT !.r = EnterPaprika(r, Throw(x.e))]
        [] r.pc = "ccSearch" -> [s EXCEPT !.r = IssueUp(r, "ccSearch", "coincap")]
        [] r.pc = "ccSearchGot" ->
             LET x == coincapResolve_search(r.in)
             IN  IF x.next = "found" THEN [s EXCEPT !.r.pc = "ccData"]
                 ELSE [s EXCEPT !.r = EnterPaprika(r, Throw(x.e))]
        [] r.pc = "ccData" -> [s EXCEPT !.r = IssueUp(r, "ccData", "coincap")]
        [] r.pc = "ccDataGot" ->
             LET x == coincapPriceUSD(r.in)
             IN  [s EXCEPT !.r = FirstSuccess(r, x, EnterPaprika(r, x))]
        [] r.pc = "ppSearch" -> [s EXCEPT !.r = IssueUp(r, "ppSearch", "paprika")]
        [] r.pc = "ppSearchGot" ->
             LET x == paprikaResolve(r.in)
             IN  IF x.next = "found" THEN [s EXCEPT !.r.pc = "ppData"]
                 ELSE [s EXCEPT !.r = ResolverThrow(r, Throw(x.e), "all_price_sources_failed")]
        [] r.pc = "ppData" -> [s EXCEPT !.r = IssueUp(r, "ppData", "paprika")]
        [] r.pc = "ppDataGot" ->
             LET x == paprikaPriceUSD(r.in)
             IN  [s EXCEPT !.r = FirstSuccess(r, x,
                                   ResolverThrow(r, x, "all_price_sources_failed"))]

\* getUSDHistoryForId(id, days): Binance klines, then CoinCap history
getUSDHistoryForId(s, t) ==
  LET r == s.r
  IN  CASE r.pc = "resolve"  -> [s EXCEPT !.r = ResolverEnter(r)]
        [] r.pc = "probe"    -> probeBinancePair_entry(s, t)
        [] r.pc = "probeGot" -> probeBinancePair_got(s, t)
        [] r.pc = "binance"  ->
             IF Truthy(r.pair)
             THEN [s EXCEPT !.r = IssueUp(r, "binance", "binance")]
             ELSE [s EXCEPT !.r = EnterCoincap(r, Throw("no_pair"))]
        [] r.pc = "binanceGot" ->
             LET kl == binanceKlines(r.in, t)
                 sliced == IF kl.ok THEN SelectPts(kl.v, t, r.days) ELSE <<>>
                 x == IF ~kl.ok THEN kl
                      ELSE IF Len(sliced) > 0 THEN Return(sliced)
                      ELSE Throw("binance_klines_empty")
             IN  [s EXCEPT !.r = FirstSuccess(r, x, EnterCoincap(r, x))]
        [] r.pc = "ccDirect" -> [s EXCEPT !.r = IssueUp(r, "ccDirect", "coincap")]
        [] r.pc = "ccDirectGot" ->
             LET x == coincapResolve_direct(r.in)
             IN  CASE x.next = "found"  -> [s EXCEPT !.r.pc = "ccData"]
                   [] x.next = "search" -> [s EXCEPT !.r.pc = "ccSearch"]
                   [] OTHER -> [s EXCEPT !.r = ResolverThrow(r, Throw(x.e), "all_history_sources_failed")]
        [] r.pc = "ccSearch" -> [s EXCEPT !.r = IssueUp(r, "ccSearch", "coincap")]
        [] r.pc = "ccSearchGot" ->
             LET x == coincapResolve_search(r.in)
             IN  IF x.next = "found" THEN [s EXCEPT !.r.pc = "ccData"]
                 ELSE [s EXCEPT !.r = ResolverThrow(r, Throw(x.e), "all_history_sources_failed")]
        [] r.pc = "ccData" -> [s EXCEPT !.r = IssueUp(r, "ccData", "coincap")]
        [] r.pc = "ccDataGot" ->
             LET x == coincapHistoryUSD(r.in, t, r.days)
             IN  [s EXCEPT !.r = FirstSuccess(r, x,
                                   ResolverThrow(r, x, "all_history_sources_failed"))]

(********************************* routes **********************************)
JObj(o) == [t |-> "obj", o |-> o]
Reply200(r, data, cached) ==
  [r EXCEPT !.pc = "done",
            !.resp = [status |-> 200, ok |-> TRUE, data |-> data, cached |-> cached]]

\* end of one iteration of for (const id of ids): its locals go out of scope
LoopNext(r) ==
  [r EXCEPT !.i = @ + 1, !.pc = "loop", !.calls = <<>>, !.fetches = <<>>,
            !.res = NoRes, !.pair = JNull, !.guess = JNull]

\* a route that computes its batch without looking into the cache
RouteEntry_recompute(s, t) ==
  [s EXCEPT !.r = [s.r EXCEPT !.reads = @ \cup {ReqKey(s.r)}, !.pc = "fx"]]

\* the cache lookup that opens /api/price and /api/compare
RouteEntry(s, t) ==
  LET r == s.r
      hit == getCache(s.c, t, ReqKey(r))
      r1 == [r EXCEPT !.reads = @ \cup {ReqKey(r)}]
  IN  IF Truthy(hit) THEN [s EXCEPT !.r = Reply200(r1, hit.o, TRUE)]
      ELSE [s EXCEPT !.r = [r1 EXCEPT !.pc = "fx"]]

\* a loop body whose catch is missing: a failed id fails the request
apiPrice_collect_abort(r, t) ==
  IF ~r.res.ok THEN Fail500(r, r.res.e)
  ELSE [r EXCEPT !.out = [x \in DOMAIN r.out \cup {CurId(r)} |->
                            IF x = CurId(r)
                            THEN [quote |-> Mul(r.res.v, r.rate), usd |-> r.res.v]
                            ELSE r.out[x]],
                 !.results = Append(@, r.res),
                 !.pc = "sleep", !.wake = t + SleepMs]

\* the body of for (const id of ids) in /api/price once the resolver is back
apiPrice_collect(r, t) ==
  LET entry == IF r.res.ok
               THEN [quote |-> Mul(r.res.v, r.rate), usd |-> r.res.v]
               ELSE [error |-> "unavailable"]
  IN  [r EXCEPT !.out = [x \in DOMAIN r.out \cup {CurId(r)} |->
                           IF x = CurId(r) THEN entry ELSE r.out[x]],
                !.results = Append(@, r.res),
                !.pc = "sleep", !.wake = t + SleepMs]

\* the body of for (const id of symbols) in /api/compare once the resolver is back
apiCompare_collect(r, t) ==
  LET item == IF r.res.ok
              THEN [id |-> CurId(r),
                    prices |-> [j \in 1..Len(r.res.v) |->
                                  [ts |-> r.res.v[j].ts,
                                   price |-> Mul(r.res.v[j].price, r.rate)]]]
              ELSE [id |-> CurId(r), error |-> "history_unavailable", prices |-> <<>>]
  IN  [r EXCEPT !.out = Append(@, item),
                !.results = Append(@, r.res),
                !.pc = "sleep", !.wake = t + SleepMs]

\* app.get("/api/price")
apiPrice(s, t) ==
  LET r == s.r
  IN  CASE r.pc = "start" -> RouteEntry(s, t)
        [] r.pc = "fx"    -> fxUSDTo_entry(s, t)
        [] r.pc = "fxGot" -> fxUSDTo_got(s, t)
        [] r.pc = "loop"  ->
             IF r.i <= Len(r.ids) THEN [s EXCEPT !.r.pc = "resolve"]
             ELSE [s EXCEPT !.c = setCache(s.c, t, ReqKey(r), JObj(r.out), PriceTTL),
                            !.r = [Reply200(r, r.out, FALSE) EXCEPT
                                     !.writes = @ \cup {ReqKey(r)}]]
        [] r.pc = "resolved" -> [s EXCEPT !.r = apiPrice_collect(r, t)]
        [] r.pc = "woke" -> [s EXCEPT !.r = LoopNext(r)]
        [] OTHER -> getUSDPriceForId(s, t)

\* app.get("/api/compare")
apiCompare(s, t) ==
  LET r == s.r
  IN  CASE r.pc = "start" -> RouteEntry(s, t)
        [] r.pc = "fx"    -> fxUSDTo_entry(s, t)
        [] r.pc = "fxGot" -> fxUSDTo_got(s, t)
        [] r.pc = "loop"  ->
             IF r.i <= Len(r.ids) THEN [s EXCEPT !.r.pc = "resolve"]
             ELSE LET payload == [items |-> r.out, vs |-> r.vs, days |-> r.days]
                  IN  [s EXCEPT !.c = setCache(s.c, t, ReqKey(r), JObj(payload), CmpTTL),
                                !.r = [Reply200(r, payload, FALSE) EXCEPT
                                         !.writes = @ \cup {ReqKey(r)}]]
        [] r.pc = "resolved" -> [s EXCEPT !.r = apiCompare_collect(r, t)]
        [] r.pc = "woke" -> [s EXCEPT !.r = LoopNext(r)]
        [] OTHER -> getUSDHistoryForId(s, t)

\* a JS number as a number of the analysis
ToQ(v) == IF v.t = "num" THEN Num(v.n) ELSE v

\* j?.choices?.[0]?.message?.content || "Summary unavailable. ..." inside
\* try { } catch { "AI summary failed. ..." }  (the warning sign of the
\* texts is left out)
krypto_summary(resp) ==
  IF resp.kind # "json" THEN JStr("AI summary failed. Not financial advice.")
  ELSE IF Truthy(resp.val) THEN resp.val
  ELSE JStr("Summary unavailable. Not financial advice.")

\* result.krypto_summary = text
WithSummary(result, text) ==
  [f \in DOMAIN result \cup {"krypto_summary"} |->
     IF f = "krypto_summary" THEN text ELSE result[f]]

\* the narrative step without its try / catch: a failed call fails the request
kryptoSummary_got_uncaught(r) ==
  IF r.in.kind = "neterr" THEN Fail500(r, "fetch failed")
  ELSE IF r.in.kind = "badjson" THEN Fail500(r, "invalid json")
  ELSE Reply200(r, WithSummary(r.out, krypto_summary(r.in)), FALSE)

\* analyzeSymbol from the completion of the text-generation call
kryptoSummary_got(r) ==
  Reply200(r, WithSummary(r.out, krypto_summary(r.in)), FALSE)

\* analyzeSymbol(symbol, vs, 60) behind app.get("/api/krypto/analyze"); the
\* result object is kept in out while the text-generation call is awaited
analyzeSymbol(s, t) ==
  LET r == s.r
  IN  CASE r.pc = "start" -> [s EXCEPT !.r.pc = "fx"]
        [] r.pc = "fx"    -> fxUSDTo_entry(s, t)
        [] r.pc = "fxGot" -> fxUSDTo_got(s, t)
        [] r.pc = "loop"  -> [s EXCEPT !.r.pc = "resolve"]
        [] r.pc = "resolved" ->
             IF ~r.res.ok THEN [s EXCEPT !.r = Fail500(r, r.res.e)]
             ELSE With([j \in 1..Len(r.res.v) |->
                          ToQ(Mul(r.res.v[j].price, r.rate))], LAMBDA prices :
                    IF Len(prices) = 0 THEN [s EXCEPT !.r = Fail500(r, "no price data")]
                    ELSE With(indicatorStack(CurId(r), r.vs, prices, r.vol),
                              LAMBDA result :
                           IF r.openaiKey # ""
                           THEN [s EXCEPT !.r = [Issue(r, "ai", "openai", CurId(r))
                                                   EXCEPT !.out = result]]
                           ELSE [s EXCEPT !.r = Reply200([r EXCEPT !.out = result],
                                                         result, FALSE)]))
        [] r.pc = "aiGot" -> [s EXCEPT !.r = kryptoSummary_got(r)]
        [] OTHER -> getUSDHistoryForId(s, t)

(************************ POST /api/krypto/analyze/raw *********************)
\* Array.isArray(row) ? row[1] : row
RowValue(row) ==
  IF row.t = "arr" THEN (IF Len(row.a) >= 2 THEN row.a[2] ELSE JUndef) ELSE row

\* prices.map(...).map(Number).filter(Number.isFinite) over rows[lo..hi],
\* taken by halves
RECURSIVE FiniteNumbers(_, _, _)
FiniteNumbers(rows, lo, hi) ==
  IF lo > hi THEN <<>>
  ELSE IF lo = hi
  THEN LET x == ToNumber(RowValue(rows[lo]))
       IN  IF NumberIsFinite(x) THEN <<Num(x.n)>> ELSE <<>>
  ELSE LET mid == (lo + hi) \div 2
       IN  FiniteNumbers(rows, lo, mid) \o FiniteNumbers(rows, mid + 1, hi)

\* a validation that only asks for an array
pricesRequired_anylength(prices) == prices.t # "arr"

\* !Array.isArray(prices) || prices.length < 40
pricesRequired(prices) == prices.t # "arr" \/ Len(prices.a) < MinPoints

Bad400(msg) == [status |-> 400, ok |-> FALSE, error |-> msg]

\* the handler of app.post("/api/krypto/analyze/raw"); it awaits nothing.
\* Its answer is given for each value vols offers for an open volatility.
apiAnalyzeRaw(body, vols) ==
  IF pricesRequired(body.prices)
  THEN [v \in vols |-> Bad400("prices array required (>=40 points)")]
  ELSE With(FiniteNumbers(body.prices.a, 1, Len(body.prices.a)), LAMBDA P :
         IF Len(P) = 0 THEN [v \in vols |-> Bad400("invalid prices")]
         ELSE With(indicatorsOf(P), LAMBDA id :
                [v \in vols |->
                   [status |-> 200, ok |-> TRUE,
                    data |-> composeResult(body.symbol, body.vs, P[Len(P)],
                                           id, stdevLog(id.vol7, v))]]))

\* one synchronous step of the handler of request r
Micro(s, t) ==
  CASE s.r.kind = "price"   -> apiPrice(s, t)
    [] s.r.kind = "compare" -> apiCompare(s, t)
    [] OTHER                -> analyzeSymbol(s, t)

\* the handler runs until it awaits I/O or a timer, or has answered
RECURSIVE Run(_, _)
Run(s, t) ==
  IF Blocked(s.r) THEN s ELSE CHOOSE y \in {Run(x, t) : x \in {Micro(s, t)}} : TRUE

(********************************* events **********************************)
IdLists == UNION {[1..n -> Ids] : n \in 1..MaxIds}

\* (req.query.vs || "inr").toLowerCase()
QueryVs(rawVs) == toLowerCase(IF rawVs = "" THEN "inr" ELSE rawVs)

NewReq(kind, ids, rawVs) ==
  [IdleReq EXCEPT !.kind = kind, !.ids = ids, !.rawVs = rawVs, !.vs = QueryVs(rawVs),
                  !.days = CASE kind = "compare" -> DefaultCompareDays
                             [] kind = "analyze" -> AnalyzeDays
                             [] OTHER -> 0,
                  !.pc = "start", !.i = 1]

\* the loop goes on once the awaited resolution and the awaited sleep are over
CanAdvance_fanout(r) == r.pc \in {"sleep", "wait"} /\ r.kind # "analyze" /\ r.await # "fx"

CanAdvance(r) == r.pc = "sleep"

ProviderOf(label) ==
  CASE label = "fx" -> "fx"
    [] label = "ai" -> "openai"
    [] label \in {"probe", "binance"} -> "binance"
    [] label \in {"ccDirect", "ccSearch", "ccData"} -> "coincap"
    [] OTHER -> "paprika"

Responses(r) ==
  CASE r.await = "fx" -> {NetErr, BadJson(TRUE)} \cup {Json(TRUE, f) : f \in FxFields}
    [] r.await = "ai" -> RespOver(AiFields)
    [] r.await \in {"ccDirect", "ccSearch", "ppSearch"} -> RespOver(IdFields)
    [] r.await = "binance" /\ Mode(r) = "history" -> RespOver(SeriesFields)
    [] r.await = "ccData" /\ Mode(r) = "history" -> RespOver(SeriesFields)
    [] OTHER -> RespOver(PriceFields)

Commit(p, s) ==
  /\ req' = [req EXCEPT ![p] = [s.r EXCEPT !.in = NetErr]]
  /\ cache' = s.c

\* the server's OPENAI_API_KEY, and the volatility oracle of the analysis
OpenaiKeys == {"", "sk-test"}
VolSamples == {Frac(1, 1000), Frac(1, 100), Frac(1, 10), Num(1)}

Arrive(p) ==
  /\ req[p].pc = "idle" /\ raw = NoRaw
  /\ \E kind \in Kinds, ids \in IdLists, rawVs \in RawVs :
       \E key \in IF kind = "analyze" THEN OpenaiKeys ELSE {""},
          v \in IF kind = "analyze" THEN VolSamples ELSE {Num(0)} :
         /\ kind = "analyze" => Len(ids) = 1
         /\ Commit(p, Run([r |-> [NewReq(kind, ids, rawVs) EXCEPT
                                    !.openaiKey = key, !.vol = v],
                           c |-> cache], now))
  /\ UNCHANGED <<now, got, lastSet, raw, ind>>

\* an outstanding fetch of request p completes with one of resps
CompleteFrom(p, resps) ==
  /\ req[p].pc = "wait"
  /\ \E resp \in resps :
       LET r == req[p]
           call == [asset |-> IF r.await = "fx" THEN "" ELSE CurId(r),
                    provider |-> ProviderOf(r.await)]
           r0 == [r EXCEPT !.in = resp, !.pc = r.await \o "Got", !.await = "",
                           !.inflight = @ \ {call},
                           !.fxResp = IF r.await = "fx" THEN resp ELSE @]
       IN  Commit(p, Run([r |-> r0, c |-> cache], now))
  /\ UNCHANGED <<now, got, lastSet, raw, ind>>

Complete(p) == CompleteFrom(p, Responses(req[p]))

SleepDone(p) ==
  /\ CanAdvance(req[p])
  /\ now' = IF now < req[p].wake THEN req[p].wake ELSE now
  /\ Commit(p, Run([r |-> [req[p] EXCEPT !.pc = "woke"], c |-> cache], now'))
  /\ UNCHANGED <<got, lastSet, raw, ind>>

(* The bodies posted to the raw endpoint: a missing or non-array prices field, *)
(* series of integer prices of several shapes and lengths, each also in       *)
(* reversed order, rows given as [ts, price] pairs, and rows that are not     *)
(* numbers.                                                                   *)
SeriesLens == {1, MinPoints - 1, MinPoints, LongLen}
Shapes     == {"flat", "up", "convex", "concave", "zigzag"}
Bases      == {-300, 100}
Steps      == {1}

\* the i-th price of a series of len points: up, convex and concave rise
\* strictly from one point to the next
PriceAt(shape, len, b, st, i) ==
  CASE shape = "flat"    -> b
    [] shape = "up"      -> b + st * i
    [] shape = "convex"  -> b + st * (i + (i * i) \div len)
    [] shape = "concave" -> b + st * (i + (i * (2 * len - i)) \div len)
    [] OTHER             -> b + st * (i % 2)

\* rev: the same prices in reversed order
NumberRows(shape, len, b, st, rev) ==
  [i \in 1..len |-> JNum(PriceAt(shape, len, b, st, IF rev THEN len + 1 - i ELSE i))]
PairRows(shape, len, b, st) ==
  [i \in 1..len |-> JArr(<<JNum(i), JNum(PriceAt(shape, len, b, st, i))>>)]
\* k numeric texts followed by rows that are no numbers
JunkRows(len, k) == [i \in 1..len |-> IF i <= k THEN JStr("7") ELSE JStr("abc")]

RawBody(prices) == [symbol |-> "bitcoin", vs |-> "inr", prices |-> prices]
RawBodies ==
  {RawBody(JUndef), RawBody(JStr("7"))}
    \cup {RawBody(JArr(NumberRows(sh, len, b, st, rev))) :
            sh \in Shapes, len \in SeriesLens, b \in Bases, st \in Steps,
            rev \in BOOLEAN}
    \cup {RawBody(JArr(PairRows("up", len, 100, 1))) : len \in {MinPoints - 1, MinPoints}}
    \cup {RawBody(JArr(JunkRows(len, k))) : len \in {MinPoints - 1, MinPoints}, k \in 0..2}
    \cup {RawBody(JArr([i \in 1..MinPoints |-> JNull]))}

\* one POST /api/krypto/analyze/raw, from its arrival to its answer
PostRaw ==
  /\ raw = NoRaw /\ req[1].pc = "idle"
  /\ \E body \in RawBodies :
       LET answer == apiAnalyzeRaw(body, VolSamples)
       IN  \E v \in VolSamples : raw' = [body |-> body, resp |-> answer[v]]
  /\ UNCHANGED <<cache, now, req, got, lastSet, ind>>

TestKeys == {PairKey("bitcoin"), FxKey("inr")}
TestVals == {JNum(2), JBool(FALSE)}

NoGet == [k |-> FxKey(""), v |-> JNull, at |-> 0, valid |-> FALSE]
NoSet == [set |-> FALSE, v |-> JNull, at |-> 0, ttl |-> 0]

Init ==
  /\ cache = EmptyCache
  /\ now = 0
  /\ req = [p \in Procs |-> IdleReq]
  /\ got = NoGet
  /\ lastSet = [k \in TestKeys |-> NoSet]
  /\ raw = NoRaw
  /\ ind = NoInd

Next ==
  \/ Arrive(1)
  \/ Complete(1)
  \/ SleepDone(1)
  \/ PostRaw

Spec == Init /\ [][Next]_vars

TypeOK == now >= 0

(************************ the cache on its own *****************************)
\* SpecCache drives setCache and getCache directly, with small ttls, and
\* records in lastSet the arguments of the last set of each key and in got
\* the outcome of the last get.
CacheSet ==
  /\ \E k \in TestKeys, v \in TestVals, ttl \in 0..MaxTTL :
       /\ cache' = setCache(cache, now, k, v, ttl)
       /\ lastSet' = [lastSet EXCEPT ![k] = [set |-> TRUE, v |-> v, at |-> now, ttl |-> ttl]]
  /\ got' = NoGet
  /\ UNCHANGED <<now, req, raw, ind>>

CacheGet ==
  /\ \E k \in TestKeys :
       got' = [k |-> k, v |-> getCache(cache, now, k), at |-> now, valid |-> TRUE]
  /\ UNCHANGED <<cache, now, req, lastSet, raw, ind>>

CacheTick ==
  /\ now < MaxClock
  /\ now' = now + 1
  /\ UNCHANGED <<cache, req, got, lastSet, raw, ind>>

NextCache == CacheSet \/ CacheGet \/ CacheTick

SpecCache == Init /\ [][NextCache]_vars

(************************ the indicators on their own ***********************)
\* SpecInd starts from a short series of whole positive prices and a period
\* (window) and applies RSI or trendSlope to it once; ind records the call.
SmallSeries == UNION {[1..k -> 1..MaxPrice] : k \in 1..MaxSeries}
AsNumbers(arr) == [i \in 1..Len(arr) |-> Num(arr[i])]

InitInd ==
  /\ cache = EmptyCache
  /\ now = 0
  /\ req = [p \in Procs |-> IdleReq]
  /\ got = NoGet
  /\ lastSet = [k \in TestKeys |-> NoSet]
  /\ raw = NoRaw
  /\ \E arr \in SmallSeries, n \in 0..MaxWindow :
       ind = [f |-> "input", arr |-> arr, n |-> n, out |-> JUndef]

CallRSI ==
  /\ ind.f = "input"
  /\ ind' = [ind EXCEPT !.f = "RSI", !.out = RSI(AsNumbers(ind.arr), ind.n)]
  /\ UNCHANGED <<cache, now, req, got, lastSet, raw>>

CallTrendSlope ==
  /\ ind.f = "input"
  /\ ind' = [ind EXCEPT !.f = "trendSlope", !.out = trendSlope(AsNumbers(ind.arr), ind.n)]
  /\ UNCHANGED <<cache, now, req, got, lastSet, raw>>

NextInd == CallRSI \/ CallTrendSlope

SpecInd == InitInd /\ [][NextInd]_vars

(********************* two requests and the passing of time ****************)
\* SpecTwo serves two requests of the batch routes, the second one arriving
\* while the first is suspended, after it has answered, or after time has
\* passed.  Upstream answers are cut down to one failure and one or two
\* successes per call; the fallback sources only fail.
TwoKinds   == {"price", "compare"}
TwoIdLists == {<<"bitcoin">>, <<"mooncoin">>}
TwoDays    == {7, DefaultCompareDays}

TwoResponses(r) ==
  CASE r.await = "fx" -> {NetErr, Json(TRUE, JNum(2)), Json(TRUE, JNum(3))}
    [] r.await = "probe" -> {NetErr, Json(TRUE, JStr("7"))}
    [] r.await = "binance" /\ Mode(r) = "spot" -> {NetErr, Json(TRUE, JStr("7"))}
    [] r.await = "binance" -> {NetErr, Json(TRUE, JArr(<<Pt(0, JStr("7"))>>))}
    [] OTHER -> {NetErr}

\* parseInt(req.query.days || "30", 10) is the days of a compare request
ArriveTwo(p) ==
  /\ req[p].pc = "idle"
  /\ \A q \in Procs : q < p => req[q].pc # "idle"
  /\ \E kind \in TwoKinds, ids \in TwoIdLists, days \in TwoDays :
       /\ kind = "price" => days = DefaultCompareDays
       /\ Commit(p, Run([r |-> [NewReq(kind, ids, "inr") EXCEPT
                                  !.days = IF kind = "compare" THEN days ELSE 0],
                         c |-> cache], now))
  /\ UNCHANGED <<now, got, lastSet, raw, ind>>

CompleteTwo(p) == CompleteFrom(p, TwoResponses(req[p]))

\* the waits of the clock: up to each time-to-live of the program and past it
Waits ==
  {ttl + e : ttl \in {PriceTTL, FxTTL, PairTTL}, e \in (0 - MaxIds)..1}

\* time passes between a request that has answered and one still to come
Advance ==
  /\ \A p \in Procs : req[p].pc \in {"idle", "done"}
  /\ \E p, q \in Procs : req[p].pc = "done" /\ req[q].pc = "idle"
  /\ now <= MaxIds
  /\ \E d \in Waits : now' = now + d
  /\ UNCHANGED <<cache, req, got, lastSet, raw, ind>>

NextTwo ==
  \/ \E p \in Procs : ArriveTwo(p)
  \/ \E p \in Procs : CompleteTwo(p)
  \/ \E p \in Procs : SleepDone(p)
  \/ Advance

SpecTwo == Init /\ [][NextTwo]_vars

(************ one request under upstreams that always complete *************)
\* what an upstream call can complete with: an error or a result
LiveResponses(r) ==
  CASE r.await = "fx" -> {NetErr, Json(TRUE, JNum(2))}
    [] r.await = "ai" -> {NetErr, Json(TRUE, JStr("Momentum is positive."))}
    [] r.await \in {"ccDirect", "ccSearch", "ppSearch"} ->
         {NetErr, Json(FALSE, JUndef), Json(TRUE, JStr("resolved-id"))}
    [] r.await \in {"binance", "ccData"} /\ Mode(r) = "history" ->
         {NetErr, Json(TRUE, JArr(<<Pt(0, JStr("7"))>>))}
    [] OTHER -> {NetErr, Json(TRUE, JStr("7"))}

ArriveLive ==
  /\ req[1].pc = "idle"
  /\ \E kind \in Kinds, ids \in IdLists, key \in OpenaiKeys :
       /\ kind = "analyze" => Len(ids) = 1
       /\ kind # "analyze" => key = ""
       /\ Commit(1, Run([r |-> [NewReq(kind, ids, "inr") EXCEPT
                                  !.openaiKey = key, !.vol = Frac(1, 100)],
                         c |-> cache], now))
  /\ UNCHANGED <<now, got, lastSet, raw, ind>>

CompleteLive == CompleteFrom(1, LiveResponses(req[1]))

NextLive == ArriveLive \/ CompleteLive \/ SleepDone(1)

\* every fetch in flight completes and every timer set fires
SpecLive ==
  Init /\ [][NextLive]_vars /\ WF_vars(CompleteLive) /\ WF_vars(SleepDone(1))

(************** the series cache of the second fetchPricesSeries ************)
\* SpecSeries runs calls of fetchPricesSeries of the later server file, two
\* at a time, against its own cache; req holds the position of each call.
CACHE_TTL_MS == (60 * 1000) \div Scale

McKey(symbol, vs, days) == Key("mc", <<symbol>>, days, vs)

\* v?.f on a parsed JSON value
Member(v, f) == IF v.t = "obj" /\ f \in DOMAIN v.o THEN v.o[f] ELSE JUndef

\* Array.isArray(v?.prices) && v.prices.length > 0
HasPrices(v) == Member(v, "prices").t = "arr" /\ Len(Member(v, "prices").a) > 0

\* getNonEmptyCache(k): no look at the age of the entry
getNonEmptyCache(c, k) ==
  IF k \notin DOMAIN c THEN JNull
  ELSE IF ~Truthy(c[k].v) THEN JNull
  ELSE IF HasPrices(c[k].v) THEN c[k].v
  ELSE JNull

\* bodies the market_chart endpoint answers with
Limited     == JObj([status |-> JObj([error_code |-> JNum(429)])])
NotFound    == JObj([error |-> JStr("coin not found")])
EmptyPrices == JObj([prices |-> JArr(<<>>)])
SeriesOf(close) == JObj([prices |-> JArr(<<Pt(0, JNum(close))>>)])
SeriesResponses ==
  {NetErr, Json(TRUE, Limited), Json(TRUE, NotFound), Json(TRUE, EmptyPrices),
   Json(TRUE, SeriesOf(7)), Json(TRUE, SeriesOf(8))}

IdleCall ==
  [pc |-> "idle", symbol |-> "", cached |-> JNull, in |-> NetErr, ret |-> NoRes]

\* fetchPricesSeries up to await fetch(url)
fetchPricesSeries_entry(c, symbol) ==
  [IdleCall EXCEPT !.pc = "wait", !.symbol = symbol,
                   !.cached = getNonEmptyCache(c, McKey(symbol, "inr", AnalyzeDays))]

\* if (cached) return cached; throw err
OrThrow(call, e) ==
  IF Truthy(call.cached) THEN Return(call.cached) ELSE Throw(e)

\* fetchPricesSeries from the completion of its fetch: what it returns or
\* throws, and the cache it leaves
fetchPricesSeries_got(c, t, call, resp) ==
  LET key == McKey(call.symbol, "inr", AnalyzeDays)
      j == resp.val
  IN  IF resp.kind # "json" THEN [c |-> c, ret |-> OrThrow(call, "fetch failed")]
      ELSE IF Member(Member(j, "status"), "error_code") = JNum(429)
      THEN [c |-> c, ret |-> OrThrow(call, "rate_limited")]
      ELSE IF ~HasPrices(j)
      THEN [c |-> c, ret |-> IF Truthy(call.cached) THEN Return(call.cached) ELSE Return(j)]
      ELSE [c |-> setCache(c, t, key, j, CACHE_TTL_MS), ret |-> Return(j)]

InitSeries ==
  /\ cache = EmptyCache
  /\ now = 0
  /\ req = [p \in Procs |-> IdleCall]
  /\ got = NoGet
  /\ lastSet = [k \in TestKeys |-> NoSet]
  /\ raw = NoRaw
  /\ ind = NoInd

SeriesCall(p) ==
  /\ req[p].pc = "idle"
  /\ \E symbol \in Ids :
       req' = [req EXCEPT ![p] = fetchPricesSeries_entry(cache, symbol)]
  /\ UNCHANGED <<cache, now, got, lastSet, raw, ind>>

SeriesDone(p) ==
  /\ req[p].pc = "wait"
  /\ \E resp \in SeriesResponses :
       LET end == fetchPricesSeries_got(cache, now, req[p], resp)
       IN  /\ cache' = end.c
           /\ req' = [req EXCEPT ![p] = [@ EXCEPT !.pc = "done", !.in = resp,
                                                    !.ret = end.ret]]
  /\ UNCHANGED <<now, got, lastSet, raw, ind>>

\* the caller has taken the outcome; the next call can come
SeriesTaken(p) ==
  /\ req[p].pc = "done"
  /\ req' = [req EXCEPT ![p] = IdleCall]
  /\ UNCHANGED <<cache, now, got, lastSet, raw, ind>>

\* time passes, up to and past the time-to-live of an entry
SeriesWait ==
  /\ DOMAIN cache # {} /\ now <= CACHE_TTL_MS + 1
  /\ \E d \in {CACHE_TTL_MS, CACHE_TTL_MS + 1} : now' = now + d
  /\ UNCHANGED <<cache, req, got, lastSet, raw, ind>>

NextSeries ==
  \/ \E p \in Procs : SeriesCall(p)
  \/ \E p \in Procs : SeriesDone(p)
  \/ \E p \in Procs : SeriesTaken(p)
  \/ SeriesWait

SpecSeries == InitSeries /\ [][NextSeries]_vars

(******************************** claims ***********************************)
R == req[1]
Chain(r) == IF Mode(r) = "spot" THEN <<"binance", "coincap", "paprika">>
            ELSE <<"binance", "coincap">>
Exhausted(r) == IF Mode(r) = "spot" THEN "all_price_sources_failed"
                ELSE "all_history_sources_failed"
\* the resolver call of the current asset has returned or thrown
Finished(r) == r.res.ok \/ r.res.e # "pending"
LastCall(r) == r.calls[Len(r.calls)]

\* C1: the adapters of a resolver call are entered in the fixed order, each
\* only after all the earlier ones failed; nothing is entered after a
\* success, and the resolver returns exactly the result of that success.
Thm_C1 ==
  R.kind # "none" =>
    /\ Len(R.calls) <= Len(Chain(R))
    /\ \A j \in 1..Len(R.calls) : R.calls[j].adapter = Chain(R)[j]
    /\ \A j \in 1..(Len(R.calls) - 1) : R.calls[j].status = "fail"
    /\ (Len(R.calls) > 0 /\ LastCall(R).status = "ok") =>
          (Finished(R) /\ R.res = LastCall(R).res)
    /\ (Finished(R) /\ R.res.ok) => LastCall(R).status = "ok"

\* two adapters failed and the third one's result is what the resolver returned
Wit_C1 ==
  /\ Len(R.calls) = 3
  /\ R.calls[1].status = "fail" /\ R.calls[2].status = "fail"
  /\ R.calls[3].status = "ok"
  /\ R.res.ok /\ R.res.v = JNum(7)

\* C2: a finished resolver call failed iff every adapter of its chain was
\* tried and failed, and then its error is the exhaustion error of the
\* resolver, never the error of an adapter, of the probe or of an id lookup.
Thm_C2 ==
  Finished(R) =>
    /\ ~R.res.ok <=> ( /\ Len(R.calls) = Len(Chain(R))
                       /\ \A j \in 1..Len(R.calls) : R.calls[j].status = "fail" )
    /\ ~R.res.ok => R.res.e = Exhausted(R)
    /\ (R.kind = "analyze" /\ R.pc = "done" /\ ~R.res.ok) =>
          R.resp = [status |-> 500, ok |-> FALSE, error |-> Exhausted(R)]

\* the CoinCap id lookup threw and the history resolver ended with its own error
Wit_C2 ==
  /\ Mode(R) = "history" /\ Finished(R) /\ ~R.res.ok
  /\ Len(R.calls) = 2
  /\ R.calls[2].res.e \in {"fetch failed", "coincap_resolve_failed"}
  /\ R.res.e = "all_history_sources_failed"

GotSet == lastSet[got.k]

\* C3: a get of k at most T after the last set(k, v, T) returns v, a get
\* later than that returns null.
Thm_C3 ==
  (got.valid /\ GotSet.set) =>
    /\ (got.at - GotSet.at <= GotSet.ttl) => got.v = GotSet.v
    /\ (got.at - GotSet.at > GotSet.ttl) => got.v = JNull

\* time has passed since the set and the get still returns the value
Wit_C3 ==
  /\ got.valid /\ GotSet.set
  /\ got.at > GotSet.at /\ got.at - GotSet.at <= GotSet.ttl
  /\ got.v = GotSet.v

\* C4 as stated: the entry is returned iff now - created-at < ttl
Orig_C4 ==
  (got.valid /\ GotSet.set) =>
    ((got.v # JNull) <=> (got.at - GotSet.at < GotSet.ttl))

\* C4 (amended): the entry is returned iff now - created-at <= ttl; a get
\* exactly ttl after the set still returns the stored value.
Thm_C4 ==
  (got.valid /\ GotSet.set) =>
    /\ (got.v # JNull) <=> (got.at - GotSet.at <= GotSet.ttl)
    /\ (got.at - GotSet.at = GotSet.ttl) => got.v = GotSet.v

\* a get exactly ttl after the set
Wit_C4 ==
  /\ got.valid /\ GotSet.set
  /\ GotSet.ttl > 0 /\ got.at - GotSet.at = GotSet.ttl
  /\ got.v = GotSet.v

Range(f) == {f[j] : j \in DOMAIN f}
LastPos(ids, id) == CHOOSE j \in 1..Len(ids) : ids[j] = id /\ \A k \in (j+1)..Len(ids) : ids[k] # id
FxAvailable(r) == r.rate # JUndef
PriceEntryFor(res, rate) ==
  IF res.ok THEN [quote |-> Mul(res.v, rate), usd |-> res.v] ELSE [error |-> "unavailable"]
CompareItemFor(id, res, rate) ==
  IF res.ok
  THEN [id |-> id, prices |-> [j \in 1..Len(res.v) |->
                                 [ts |-> res.v[j].ts, price |-> Mul(res.v[j].price, rate)]]]
  ELSE [id |-> id, error |-> "history_unavailable", prices |-> <<>>]

\* C5: once the FX rate is there, a finished /api/price or /api/compare
\* request is answered 200 {ok:true}; every requested id has its entry (in
\* request order for compare), which is the error marker if the resolution
\* of that id failed and otherwise depends on that id's own result only.
Thm_C5 ==
  (R.kind \in {"price", "compare"} /\ R.pc = "done" /\ FxAvailable(R)) =>
    /\ R.resp.status = 200 /\ R.resp.ok
    /\ \/ R.resp.cached
       \/ /\ Len(R.results) = Len(R.ids)
          /\ R.kind = "price" =>
               /\ DOMAIN R.resp.data = Range(R.ids)
               /\ \A id \in Range(R.ids) :
                    R.resp.data[id] = PriceEntryFor(R.results[LastPos(R.ids, id)], R.rate)
          /\ R.kind = "compare" =>
               /\ Len(R.resp.data.items) = Len(R.ids)
               /\ \A j \in 1..Len(R.ids) :
                    R.resp.data.items[j] = CompareItemFor(R.ids[j], R.results[j], R.rate)

\* a price batch whose first id failed and whose second id has its price
Wit_C5 ==
  /\ R.kind = "price" /\ R.pc = "done" /\ R.resp.status = 200
  /\ R.ids = <<"mooncoin", "bitcoin">>
  /\ R.resp.data["mooncoin"] = [error |-> "unavailable"]
  /\ R.resp.data["bitcoin"] = [quote |-> JNum(14), usd |-> JNum(7)]

\* C6: a request has at most one upstream call in flight, always for its
\* current asset; the calls of asset i are issued only when the i-1 earlier
\* resolutions are over and the delay after the last one has elapsed.
Thm_C6 ==
  /\ Cardinality(R.inflight) <= 1
  /\ \A c \in R.inflight :
       R.pc = "wait" /\ (c.provider = "fx" \/ c.asset = CurId(R))
  /\ (R.pc = "wait" /\ R.await # "fx") =>
       /\ Len(R.results) = R.i - 1
       /\ R.i > 1 => now >= R.wake
  /\ R.pc = "sleep" => (R.inflight = {} /\ Len(R.results) = R.i /\ R.wake = now + SleepMs)

\* the second asset's call is in flight after the first asset was resolved
Wit_C6 ==
  /\ R.pc = "wait" /\ R.i = 2 /\ R.ids = <<"bitcoin", "mooncoin">>
  /\ R.inflight = {[asset |-> "mooncoin", provider |-> "coincap"]}
  /\ Len(R.results) = 1 /\ now >= SleepMs

\* the FX source answered and fxUSDTo threw
FxFailed(r) ==
  /\ r.fxResp # NoFx
  /\ r.fxResp.kind # "json" \/ ~Truthy(r.fxResp.val)

\* C7: when fxUSDTo fails the request is answered 500 {ok:false, error}, no
\* source adapter was called for it and nothing is stored under its key.
Thm_C7 ==
  FxFailed(R) =>
    /\ R.pc = "done"
    /\ R.resp.status = 500 /\ ~R.resp.ok
    /\ R.resp.error \in {"fx_failed", "fetch failed", "invalid json"}
    /\ ~R.upCalls /\ R.calls = <<>> /\ R.results = <<>>
    /\ ReqKey(R) \notin R.writes
    /\ ReqKey(R) \notin DOMAIN cache

\* /api/krypto/analyze with a quote other than usd whose rate is missing
Wit_C7 ==
  /\ R.kind = "analyze" /\ R.vs = "inr"
  /\ R.fxResp = Json(TRUE, JUndef)
  /\ R.resp = [status |-> 500, ok |-> FALSE, error |-> "fx_failed"]

IsFxKey(k) == k.ns = "fx"

\* C8: for the quote usd, in any letter case, the rate is 1, no FX call is
\* made and no fx: key of the cache is read or written.
Thm_C8 ==
  (R.kind # "none" /\ toLowerCase(R.rawVs) = "usd") =>
    /\ R.rate = JNum(1)
    /\ R.fxCalls = 0 /\ R.fxResp = NoFx
    /\ \A k \in R.reads \cup R.writes : ~IsFxKey(k)
    /\ \A k \in DOMAIN cache : ~IsFxKey(k)

\* a request with vs=USD answered with the usd prices themselves
Wit_C8 ==
  /\ R.rawVs = "USD" /\ R.kind = "price" /\ R.pc = "done"
  /\ R.rate = JNum(1) /\ R.fxCalls = 0
  /\ R.ids = <<"bitcoin">> /\ R.resp.status = 200
  /\ R.resp.data["bitcoin"] = [quote |-> JNum(7), usd |-> JNum(7)]

\* C9 as stated: a missing or non-finite rate makes fxUSDTo fail and store
\* nothing; every rate returned or cached is a finite number.
Orig_C9 ==
  /\ (R.fxResp.kind = "json" /\ ~NumberIsFinite(R.fxResp.val)) =>
        (R.resp.status = 500 /\ FxKey(R.vs) \notin R.writes)
  /\ FxAvailable(R) => NumberIsFinite(R.rate)
  /\ \A k \in DOMAIN cache : IsFxKey(k) => NumberIsFinite(cache[k].v)

\* C10 as stated: every price returned by getUSDPriceForId is a finite
\* number strictly greater than 0.
Orig_C10 ==
  (Mode(R) = "spot" /\ Finished(R) /\ R.res.ok) =>
    (NumberIsFinite(R.res.v) /\ R.res.v.n > 0)

\* a point of a returned series is "good": its price is a finite number > 0
GoodPoint(pt) == NumberIsFinite(pt.price) /\ pt.price.n > 0
GoodSeries(res) == res.ok => (Len(res.v) > 0 /\ \A j \in 1..Len(res.v) : GoodPoint(res.v[j]))

\* C11 as stated: every series returned by getUSDHistoryForId has at least
\* one point and no point whose price is non-finite or non-positive.
Orig_C11 ==
  /\ (Mode(R) = "history" /\ Finished(R)) => GoodSeries(R.res)
  /\ R.kind = "compare" => \A j \in 1..Len(R.results) : GoodSeries(R.results[j])

\* the CoinCap id lookups (direct and search) issued for the current asset
ResolutionCalls(r) ==
  {j \in 1..Len(r.fetches) : r.fetches[j] \in {"ccDirect", "ccSearch"}}

\* the history of the first asset came from CoinCap, whose id lookup
\* therefore resolved it (Binance has no pair for it)
ResolvedAtCoincap(r) ==
  /\ r.kind = "compare" /\ Len(r.results) >= 1
  /\ r.results[1].ok /\ BinanceGuess(r.ids[1]) = JNull

\* C20 as stated: once the id of an asset has been resolved at CoinCap, a
\* later resolution of the same asset within 24 hours issues no further
\* lookup or search call to CoinCap.
Orig_C20 ==
  (Len(R.ids) >= 2 /\ R.i = 2 /\ R.ids[1] = R.ids[2]
     /\ ResolvedAtCoincap(R) /\ now < PairTTL) =>
     ResolutionCalls(R) = {}

\* the raw endpoint has answered a request
RawAnswered == raw # NoRaw
\* no row of the posted array is a finite number after Number(...)
NoFinitePrice(prices) ==
  \A i \in 1..Len(prices.a) : ~NumberIsFinite(ToNumber(RowValue(prices.a[i])))

\* C12: a request to the raw endpoint whose prices field is missing or no
\* array, has fewer than 40 rows, or has no finite price left after the
\* filter is answered 400 with an error and without an analysis; it is
\* never answered 200.
Thm_C12 ==
  (RawAnswered /\ (\/ raw.body.prices.t # "arr"
                   \/ Len(raw.body.prices.a) < 40
                   \/ NoFinitePrice(raw.body.prices)))
    => (raw.resp.status = 400 /\ raw.resp.ok = FALSE /\ "data" \notin DOMAIN raw.resp)

\* forty rows, none of them a number, are answered 400 "invalid prices"
Wit_C12 ==
  /\ RawAnswered /\ raw.body.prices.t = "arr"
  /\ Len(raw.body.prices.a) >= 40 /\ NoFinitePrice(raw.body.prices)
  /\ raw.resp.status = 400 /\ raw.resp.error = "invalid prices"

\* every row of the posted array is a finite number after Number(...)
AllRowsFinite(prices) ==
  \A i \in 1..Len(prices.a) : NumberIsFinite(ToNumber(RowValue(prices.a[i])))
\* every field of the Indicator Set is a finite number
FullyPopulated(result) ==
  \A f \in DOMAIN result.indicators : IsFin(result.indicators[f])

\* C13 as stated: 39 points are answered 400, and exactly 40 finite points
\* are answered 200 with every field of the Indicator Set a finite number.
Orig_C13 ==
  /\ (RawAnswered /\ raw.body.prices.t = "arr" /\ Len(raw.body.prices.a) = 39)
       => raw.resp.status = 400
  /\ (RawAnswered /\ raw.body.prices.t = "arr" /\ Len(raw.body.prices.a) = 40
        /\ AllRowsFinite(raw.body.prices))
       => (raw.resp.status = 200 /\ FullyPopulated(raw.resp.data))

\* the text-generation call was made in the request r
AiCalled(r) == \E j \in 1..Len(r.fetches) : r.fetches[j] = "ai"
\* the texts krypto_summary can carry: a generated one or a static fallback
SummaryTexts ==
  {f \in AiFields : Truthy(f)}
    \cup {JStr("Summary unavailable. Not financial advice."),
          JStr("AI summary failed. Not financial advice.")}

\* C14: once analyzeSymbol has made the text-generation call, whatever the
\* call produces (a text, a malformed body, a thrown error) the request is
\* answered 200, krypto_summary is the generated text or a static fallback,
\* and every other field of the result equals the value computed before the
\* call; without a credential no call is made and the result carries no
\* krypto_summary.
Thm_C14 ==
  R.kind = "analyze" =>
    /\ (AiCalled(R) /\ R.pc = "done") =>
         /\ R.resp.status = 200
         /\ DOMAIN R.resp.data = DOMAIN R.out \cup {"krypto_summary"}
         /\ R.resp.data.krypto_summary \in SummaryTexts
         /\ \A f \in DOMAIN R.out : R.resp.data[f] = R.out[f]
    /\ AiCalled(R) => R.openaiKey # ""
    /\ (R.openaiKey = "" /\ R.pc = "done" /\ R.resp.status = 200) =>
         (R.resp.data = R.out /\ "krypto_summary" \notin DOMAIN R.resp.data)

\* the call threw, and the analysis is answered with the fallback text
Wit_C14 ==
  /\ R.kind = "analyze" /\ AiCalled(R) /\ R.pc = "done"
  /\ R.resp.status = 200
  /\ R.resp.data.krypto_summary = JStr("AI summary failed. Not financial advice.")
  /\ R.resp.data.signal = R.out.signal

\* the analysis result r was computed from finite indicator inputs: its
\* slope, the one indicator the score adds in as a number, is finite
FiniteInputs(result) == IsFin(result.indicators.trendSlope)
InConfidenceRange(c) == IsFin(c) /\ Geq(c, Frac(1, 10)) /\ Geq(Frac(95, 100), c)
\* analyzeSymbol has built its result object in the request r
Analysed(r) ==
  /\ r.kind = "analyze"
  /\ r.await = "ai" \/ (r.pc = "done" /\ r.resp.status = 200)

\* C15: the confidence of every analysis result computed from finite
\* indicator inputs lies in [0.1, 0.95], in analyzeSymbol and in the raw
\* endpoint; this includes series with zero volatility, with undefined
\* volatility and with a single finite price.
Thm_C15 ==
  /\ (RawAnswered /\ raw.resp.status = 200 /\ FiniteInputs(raw.resp.data))
       => InConfidenceRange(raw.resp.data.confidence)
  /\ (Analysed(R) /\ FiniteInputs(R.out)) => InConfidenceRange(R.out.confidence)

\* a constant series: zero volatility, and the upper clamp has acted
Wit_C15 ==
  /\ RawAnswered /\ raw.resp.status = 200
  /\ raw.resp.data.indicators.vol7 = Num(0)
  /\ raw.resp.data.confidence = Frac(95, 100)

\* band_abs[0] < band_abs[1], and the two ends lie at the same distance from
\* latest_price * (1 + drift): low + high = 2 * latest_price * (1 + drift)
BandOrdered(result) ==
  LET band == result.prediction.band_abs
      pct  == result.prediction.band_pct
      dr   == Over(Plus(pct[1], pct[2]), Num(2))
  IN  /\ Lt(band[1], band[2])
      /\ Plus(band[1], band[2])
           = Times(Num(2), Times(result.latest_price, Plus(Num(1), dr)))

\* C16 as stated: every analysis result of analyzeSymbol and of the raw
\* endpoint has band_abs[0] < band_abs[1], with the midpoint of the band at
\* latest_price * (1 + drift).
Orig_C16 ==
  /\ (RawAnswered /\ raw.resp.status = 200) => BandOrdered(raw.resp.data)
  /\ Analysed(R) => BandOrdered(R.out)

\* the deltas RSI sums over: arr[i] - arr[i-1] for the last n positions
NoLossInWindow(arr, n) ==
  \A i \in (Len(arr) - n + 1)..Len(arr) : arr[i] >= arr[i - 1]
RSICalled == ind.f = "RSI" /\ Len(ind.arr) > ind.n

\* C17 as stated: for a series longer than the period RSI lies in [0, 100],
\* and it is exactly 100 whenever no delta of the trailing period window is
\* negative, a constant series included.
Orig_C17 ==
  RSICalled =>
    /\ Geq(ind.out, Num(0)) /\ Geq(Num(100), ind.out)
    /\ NoLossInWindow(ind.arr, ind.n) => ind.out = Num(100)

StrictlyIncreasing(arr) == \A i \in 2..Len(arr) : arr[i] > arr[i - 1]
StrictlyDecreasing(arr) == \A i \in 2..Len(arr) : arr[i] < arr[i - 1]
Constant(arr)           == \A i \in 2..Len(arr) : arr[i] = arr[i - 1]
SlopeCalled == ind.f = "trendSlope" /\ Len(ind.arr) >= 2
\* the sign of the slope follows the direction of the series
SlopeSignFollows ==
  /\ StrictlyIncreasing(ind.arr) => Sign(ind.out) > 0
  /\ StrictlyDecreasing(ind.arr) => Sign(ind.out) < 0
  /\ Constant(ind.arr) => ind.out = Num(0)

\* C18 as stated: for a positive series of at least 2 points and any window
\* n, trendSlope is > 0 if the series is strictly increasing, < 0 if it is
\* strictly decreasing and 0 if it is constant.
Orig_C18 == SlopeCalled => SlopeSignFollows

\* C18, amended: the same for every window of at least 2 points, and for
\* n = 0, which takes the whole series; with n = 1 the slope is 0 whatever
\* the series.
Thm_C18 ==
  /\ (SlopeCalled /\ ind.n # 1) => SlopeSignFollows
  /\ (SlopeCalled /\ ind.n = 1) => ind.out = Num(0)

\* a strictly increasing series over a window of 2 has a positive slope
Wit_C18 ==
  /\ SlopeCalled /\ ind.n = 2 /\ Len(ind.arr) >= 3
  /\ StrictlyIncreasing(ind.arr) /\ Sign(ind.out) > 0

\* the finite prices of a posted array whose rows are all numbers
PostedPrices == [i \in 1..Len(raw.body.prices.a) |-> RowValue(raw.body.prices.a[i]).n]
\* a series of 100 numbers was posted to the raw endpoint
LongSeriesPosted ==
  /\ RawAnswered /\ raw.body.prices.t = "arr"
  /\ Len(raw.body.prices.a) = 100
  /\ \A i \in 1..100 : RowValue(raw.body.prices.a[i]).t = "num"

\* C19: a 100-point series that rises from each point to the next is
\* answered with the signal "bullish" by the raw endpoint, and a series that
\* falls from each point to the next (a rising one reversed) with "bearish".
Thm_C19 ==
  LongSeriesPosted =>
    /\ StrictlyIncreasing(PostedPrices) =>
         (raw.resp.status = 200 /\ raw.resp.data.signal = "bullish")
    /\ StrictlyDecreasing(PostedPrices) =>
         (raw.resp.status = 200 /\ raw.resp.data.signal = "bearish")

\* a falling series whose MACD line is above its signal line, answered "bearish"
Wit_C19 ==
  /\ LongSeriesPosted /\ StrictlyDecreasing(PostedPrices)
  /\ Gt(raw.resp.data.indicators.macd, raw.resp.data.indicators.macdSignal)
  /\ raw.resp.data.signal = "bearish"

\* the value of a cache entry came out of a resolution that succeeded: a
\* Binance pair that exists, a batch without an asset marked as failed
HoldsSuccess(k, e) ==
  CASE k.ns = "pair"  -> e.v.t = "str"
    [] k.ns = "price" -> \A id \in DOMAIN e.v.o : "error" \notin DOMAIN e.v.o[id]
    [] k.ns = "cmp"   -> \A j \in 1..Len(e.v.o.items) :
                            "error" \notin DOMAIN e.v.o.items[j]
    [] OTHER          -> Truthy(e.v)

\* C21: in every reachable state each cache entry holds a successfully
\* resolved value (a failed probe, a failed adapter chain or a batch with an
\* unavailable asset has not written the entry of its key).
Orig_C21 == \A k \in DOMAIN cache : HoldsSuccess(k, cache[k])

\* entry k of the store is past its time-to-live
Expired(k) == k \in DOMAIN cache /\ now - cache[k].ts > cache[k].ttl

\* C22: no step removes a key from the store, and an entry changes only when
\* a handler running in that step sets its key (then it carries the time of
\* the step); a lookup, also one that finds the entry expired, leaves the
\* store as it is.
Thm_C22 ==
  [][\A k \in DOMAIN cache :
       /\ k \in DOMAIN cache'
       /\ cache'[k] # cache[k] =>
            /\ cache'[k].ts = now'
            /\ \E p \in Procs : req'[p] # req[p] /\ k \in req'[p].writes]_vars

\* a request looked up the rate after it had expired, was told it is absent
\* (it fetched, and the fetch failed), and the entry is still in the store
Wit_C22 ==
  /\ req[2].pc = "done" /\ req[2].resp.status = 500
  /\ FxKey("inr") \in req[2].reads /\ req[2].fxCalls = 1
  /\ Expired(FxKey("inr"))
  /\ cache[FxKey("inr")] = [v |-> JNum(2), ts |-> 0, ttl |-> FxTTL]

\* request p set key k in the step
SetIn(p, k) == k \in req'[p].writes /\ k \notin req[p].writes

\* C23: two requests interleaved at their fetches.  Every entry of the store
\* is a whole record (v, ts, ttl); a step that sets fx:q leaves exactly the
\* entry of that call (the rate the setting request fetched, the time of the
\* step, the FX time-to-live) whatever the key held before, so the later of
\* two sets is the one that stays; an entry changes in no other step; and a
\* request that fetched answers with the rate it fetched itself.
Thm_C23 ==
  [][/\ \A k \in DOMAIN cache' : DOMAIN cache'[k] = {"v", "ts", "ttl"}
     /\ \A p \in Procs : SetIn(p, FxKey("inr")) =>
          cache'[FxKey("inr")] = [v |-> req'[p].rate, ts |-> now', ttl |-> FxTTL]
     /\ \A k \in DOMAIN cache :
          cache'[k] # cache[k] => \E p \in Procs : req'[p] # req[p] /\ k \in req'[p].writes
     /\ \A p \in Procs :
          (req'[p].fxCalls = 1 /\ req'[p].fxResp.kind = "json" /\ Truthy(req'[p].fxResp.val))
            => req'[p].rate = req'[p].fxResp.val]_vars

\* both requests missed fx:inr and fetched; the first set 2 at time 0, the
\* second set 3 at time 1, and 3 is what the store holds after both answered
Wit_C23 ==
  /\ req[1].pc = "done" /\ req[2].pc = "done"
  /\ req[1].fxCalls = 1 /\ req[2].fxCalls = 1
  /\ FxKey("inr") \in req[1].writes /\ FxKey("inr") \in req[2].writes
  /\ req[1].rate = JNum(2) /\ req[2].rate = JNum(3)
  /\ cache[FxKey("inr")] = [v |-> JNum(3), ts |-> 1, ttl |-> FxTTL]

\* request p arrives in the step and its handler calls fxUSDTo("inr")
CallsFx(p) ==
  /\ req[p].pc = "idle" /\ req'[p].pc # "idle"
  /\ FxKey("inr") \in req'[p].reads

\* the fetch of fxUSDTo of request p completes in the step with a rate
FxFetched(p) ==
  /\ req[p].pc = "wait" /\ req[p].await = "fx" /\ req'[p] # req[p]
  /\ req'[p].fxResp.kind = "json" /\ Truthy(req'[p].fxResp.val)

\* C24: a call of fxUSDTo(q) that finds the entry fx:q no older than the FX
\* time-to-live returns the stored rate, fetches nothing and leaves the entry
\* alone; a call that finds it older fetches again, and a fetch that brings a
\* rate overwrites the entry with that rate and the time of the fetch's end.
Thm_C24 ==
  [][\A p \in Procs :
       /\ (CallsFx(p) /\ FxKey("inr") \in DOMAIN cache) =>
            IF now - cache[FxKey("inr")].ts <= FxTTL
            THEN /\ req'[p].rate = cache[FxKey("inr")].v
                 /\ req'[p].fxCalls = 0
                 /\ cache'[FxKey("inr")] = cache[FxKey("inr")]
            ELSE /\ req'[p].pc = "wait" /\ req'[p].await = "fx"
                 /\ req'[p].fxCalls = 1
       /\ FxFetched(p) =>
            cache'[FxKey("inr")] =
              [v |-> req'[p].fxResp.val, ts |-> now', ttl |-> FxTTL]]_vars

\* the second request calls fxUSDTo exactly 5 minutes after the rate was
\* stored at time 0 and gets that rate without a fetch
Wit_C24 ==
  /\ now = FxTTL
  /\ FxKey("inr") \in DOMAIN cache /\ cache[FxKey("inr")].ts = 0
  /\ FxKey("inr") \in req[2].reads /\ req[2].fxCalls = 0
  /\ req[2].rate = cache[FxKey("inr")].v

\* the messages of the errors a handler can catch
ErrorTexts ==
  {"fetch failed", "invalid json", "fx_failed", "no price data",
   "all_price_sources_failed", "all_history_sources_failed"}

NoRepeat(seq) == \A j, k \in 1..Len(seq) : seq[j] = seq[k] => j = k

\* C26: with every upstream call completing, a resolver call enters each
\* adapter at most once and issues each of its fetches at most once (at most
\* three adapters), the loop index only moves forward by one so that each
\* requested asset gets at most one resolver call and at most one result,
\* and every request that has started eventually sends its response.
Thm_C26 ==
  /\ [](/\ NoRepeat([j \in 1..Len(R.calls) |-> R.calls[j].adapter])
        /\ NoRepeat(R.fetches)
        /\ Len(R.calls) <= 3
        /\ Len(R.results) <= Len(R.ids)
        /\ R.pc # "idle" => R.i <= Len(R.ids) + 1)
  /\ [][req[1].pc # "idle" => req'[1].i \in {req[1].i, req[1].i + 1}]_vars
  /\ (R.pc # "idle") ~> (R.pc = "done")

\* the resolver call of the second asset of a request has ended after the
\* whole chain failed: three adapters entered once each, the last one failed
Wit_C26 ==
  /\ Len(R.ids) = 2 /\ R.i = 2 /\ Len(R.results) = 2
  /\ Len(R.calls) = 3 /\ R.calls[3].status = "fail"
  /\ Len(R.fetches) >= 3

\* request p enters its resolver call in the step (its id list has one id)
Resolves(p) ==
  /\ req'[p].pc # "idle"
  /\ PairKey(req'[p].ids[1]) \in req'[p].reads
  /\ PairKey(req'[p].ids[1]) \notin req[p].reads

\* at the time of the step the store holds a negative probe result for the
\* id that is no older than 24 hours
NegativeFor(id) ==
  /\ PairKey(id) \in DOMAIN cache
  /\ cache[PairKey(id)].v = JBool(FALSE)
  /\ now' - cache[PairKey(id)].ts <= PairTTL

IssuedBinance(r) ==
  \E j \in 1..Len(r.fetches) : r.fetches[j] \in {"probe", "binance"}

\* C27: a resolver call that finds a negative probe result no older than 24
\* hours issues no Binance call (no probe, no price or klines call), goes
\* to CoinCap first and leaves the entry as it is; once the entry is older
\* an id with a mapping is probed again; no call goes to Binance for an id
\* that has no mapping in COINS, and none for a request whose probe was
\* negative.
Thm_C27 ==
  [][\A p \in Procs :
       /\ (Resolves(p) /\ NegativeFor(req'[p].ids[1])) =>
            /\ req'[p].fetches = <<"ccDirect">>
            /\ req'[p].pc = "wait" /\ req'[p].await = "ccDirect"
            /\ req'[p].pair = JBool(FALSE)
            /\ cache'[PairKey(req'[p].ids[1])] = cache[PairKey(req'[p].ids[1])]
       /\ ( /\ Resolves(p) /\ req'[p].ids[1] = "bitcoin"
            /\ PairKey("bitcoin") \in DOMAIN cache
            /\ now' - cache[PairKey("bitcoin")].ts > PairTTL ) =>
            req'[p].fetches = <<"probe">>
       /\ (req'[p].pc # "idle" /\ IssuedBinance(req'[p])) =>
            req'[p].ids[1] \in DOMAIN COINS
       /\ (req'[p].pc # "idle" /\ req'[p].pair = JBool(FALSE)) =>
            ~(\E j \in 1..Len(req'[p].fetches) : req'[p].fetches[j] = "binance")]_vars

\* a request for bitcoin is at CoinCap with no Binance call behind it, exactly
\* 24 hours after a failed probe stored the negative result
Wit_C27 ==
  /\ PairKey("bitcoin") \in DOMAIN cache
  /\ cache[PairKey("bitcoin")].v = JBool(FALSE)
  /\ now - cache[PairKey("bitcoin")].ts = PairTTL
  /\ \E p \in Procs :
       /\ req[p].ids = <<"bitcoin">> /\ req[p].fetches = <<"ccDirect">>
       /\ PairKey("bitcoin") \notin req[p].writes

\* request p arrives in the step
Arrives(p) == req[p].pc = "idle" /\ req'[p].pc # "idle"

TtlOf(kind) == IF kind = "price" THEN PriceTTL ELSE CmpTTL

\* request q has computed a batch result and the entry it stored is no older
\* than its time-to-live at the time of the step
ComputedBy(q) ==
  /\ req[q].pc = "done" /\ req[q].resp.status = 200 /\ ~req[q].resp.cached
  /\ ReqKey(req[q]) \in DOMAIN cache
  /\ now' - cache[ReqKey(req[q])].ts <= TtlOf(req[q].kind)

\* request p is answered in the step of its arrival from the entry of
\* request q: cached:true, the stored data, no FX call, no adapter call
ServedFrom(p, q) ==
  /\ req'[p].pc = "done"
  /\ req'[p].resp = [status |-> 200, ok |-> TRUE,
                     data |-> cache[ReqKey(req[q])].v.o, cached |-> TRUE]
  /\ req'[p].resp.data = req[q].resp.data
  /\ req'[p].fxCalls = 0 /\ ~req'[p].upCalls /\ req'[p].fetches = <<>>
  /\ cache' = cache

\* C28 as stated: a request to the same route with the same id list and quote
\* currency as a request that has computed a batch result, arriving within
\* the entry's time-to-live, is answered from the cache.
Orig_C28 ==
  [][\A p, q \in Procs :
       ( /\ Arrives(p) /\ ComputedBy(q)
         /\ req'[p].kind = req[q].kind /\ req'[p].ids = req[q].ids
         /\ req'[p].vs = req[q].vs ) => ServedFrom(p, q)]_vars

\* C28: a request to the same route with the same id list, the same quote
\* currency and, for /api/compare, the same days as a request that has
\* computed a batch result, arriving no later than the entry's time-to-live
\* (60 s for price, 5 min for compare) after the store, is answered in one
\* step with cached:true and the stored data, error markers included,
\* without an FX or adapter call; one clock unit later it is computed afresh.
Thm_C28 ==
  [][\A p, q \in Procs :
       /\ ( /\ Arrives(p) /\ ComputedBy(q)
            /\ req'[p].kind = req[q].kind /\ req'[p].ids = req[q].ids
            /\ req'[p].vs = req[q].vs /\ req'[p].days = req[q].days )
           => ServedFrom(p, q)
       /\ ( /\ Arrives(p) /\ ReqKey(req'[p]) \in DOMAIN cache
            /\ now' - cache[ReqKey(req'[p])].ts > TtlOf(req'[p].kind) )
           => ~(req'[p].pc = "done" /\ req'[p].resp.status = 200)]_vars

\* a compare request for mooncoin is answered from the cache exactly 5
\* minutes after the batch was stored, error marker included
Wit_C28 ==
  /\ req[1].pc = "done" /\ req[2].pc = "done"
  /\ req[1].kind = "compare" /\ req[2].kind = "compare"
  /\ req[1].ids = <<"mooncoin">> /\ req[2].ids = <<"mooncoin">>
  /\ req[1].days = req[2].days
  /\ req[1].resp.status = 200 /\ ~req[1].resp.cached
  /\ req[2].resp.status = 200 /\ req[2].resp.cached
  /\ req[2].resp.data.items[1].error = "history_unavailable"
  /\ now - cache[ReqKey(req[1])].ts = CmpTTL

\* the score of an Indicator Set
ScoreOf(id) == score(id.sma20, id.sma50, id.macd, id.macdSignal, id.rsi14, id.trendSlope)

\* the moving-average term of the score of id is -1: the score is the one of
\* a plain bearish vote (0 against 1) and 2 below the one of a bullish vote
MaTermBearish(id) ==
  /\ ScoreOf(id) = ScoreOf([id EXCEPT !.sma20 = Num(0), !.sma50 = Num(1)])
  /\ Plus(ScoreOf(id), Num(2)) = ScoreOf([id EXCEPT !.sma20 = Num(1), !.sma50 = Num(0)])

\* the same for the trend (MACD) term
MacdTermBearish(id) ==
  /\ ScoreOf(id) = ScoreOf([id EXCEPT !.macd = Num(0), !.macdSignal = Num(1)])
  /\ Plus(ScoreOf(id), Num(2)) = ScoreOf([id EXCEPT !.macd = Num(1), !.macdSignal = Num(0)])

\* the oscillator contributes 0: the score is the one of a neutral RSI of
\* 50, 1 below the one of an RSI of 70 and 1 above the one of an RSI of 30
RsiTermZero(id) ==
  /\ ScoreOf(id) = ScoreOf([id EXCEPT !.rsi14 = Num(50)])
  /\ Plus(ScoreOf(id), Num(1)) = ScoreOf([id EXCEPT !.rsi14 = Num(70)])
  /\ Minus(ScoreOf(id), Num(1)) = ScoreOf([id EXCEPT !.rsi14 = Num(30)])

\* what the indicator stack made of a finite series of n prices
ScoredFor(n, id) ==
  /\ n > 0 /\ IsFin(ScoreOf(id))
  /\ n < 50 => IsNaN(id.sma50) /\ MaTermBearish(id)
  /\ n < 35 => IsNaN(id.macd) /\ IsNaN(id.macdSignal) /\ MacdTermBearish(id)
  /\ n <= 14 => IsNaN(id.rsi14) /\ RsiTermZero(id)

\* the series analyzeSymbol computes its indicators from
AnalysedPrices(r) ==
  [j \in 1..Len(r.res.v) |-> ToQ(Mul(r.res.v[j].price, r.rate))]

\* C29: for every finite non-empty series the indicator stack has worked on,
\* in analyzeSymbol and in the raw endpoint: with fewer than 50 prices sma50
\* is NaN and the moving-average term of the score is -1, with fewer than 35
\* prices MACD and its signal are NaN and the trend term is -1, with at most
\* 14 prices RSI is NaN and contributes 0, and the score is a finite number.
Thm_C29 ==
  /\ (RawAnswered /\ raw.resp.status = 200 /\ AllRowsFinite(raw.body.prices)) =>
       ScoredFor(Len(raw.body.prices.a), raw.resp.data.indicators)
  /\ (Analysed(R) /\ \A j \in 1..Len(R.res.v) : IsFin(AnalysedPrices(R)[j])) =>
       ScoredFor(Len(R.res.v), R.out.indicators)

\* 40 prices posted: sma50 is undefined while sma20, MACD and RSI are
\* numbers, and sma20 is above every price that sma50 could average
Wit_C29 ==
  /\ RawAnswered /\ raw.resp.status = 200 /\ Len(raw.body.prices.a) = 40
  /\ IsNaN(raw.resp.data.indicators.sma50)
  /\ IsFin(raw.resp.data.indicators.sma20) /\ IsFin(raw.resp.data.indicators.macd)
  /\ Gt(raw.resp.data.indicators.macd, raw.resp.data.indicators.macdSignal)
  /\ StrictlyIncreasing(PostedPrices)

\* the upstream call threw, was rate-limited or brought no prices
Unusable(resp) ==
  \/ resp.kind # "json"
  \/ resp.val = Limited
  \/ ~HasPrices(resp.val)

\* call p of fetchPricesSeries ends in the step on an unusable response
EndsUnstored(p) ==
  /\ req[p].pc = "wait" /\ req'[p].pc = "done"
  /\ Unusable(req'[p].in)

KeyOf(call) == McKey(call.symbol, "inr", AnalyzeDays)

\* C30: every entry under an mc key holds a response with a non-empty prices
\* array; every call issues its upstream request, also when a fresh entry
\* exists; and a call whose upstream call threw, was rate-limited or brought
\* no prices returns the last stored non-empty response of its key, whatever
\* its age, and throws only when the cache holds no such entry.
Orig_C30 ==
  [][\A p \in Procs :
       /\ \A k \in DOMAIN cache' : HasPrices(cache'[k].v)
       /\ (req[p].pc = "idle" /\ req'[p].pc # "idle") => req'[p].pc = "wait"
       /\ EndsUnstored(p) =>
            /\ KeyOf(req[p]) \in DOMAIN cache =>
                 req'[p].ret = Return(cache[KeyOf(req[p])].v)
            /\ ~req'[p].ret.ok => KeyOf(req[p]) \notin DOMAIN cache]_vars
====
